---- MODULE Spec2Model ----
(***************************************************************************)
(* A model of django_template_engine.js: values and strings, the Context  *)
(* and RenderContext frame stacks, variable resolution, the node tree      *)
(* renderer (text, variable, block, extends, include, for, with) and the  *)
(* TemplateEngine entry points.                                            *)
(*                                                                         *)
(* A JavaScript string is a sequence of pieces; a piece is one character  *)
(* that matters to the code (an HTML metacharacter, a dot, the "%s"        *)
(* placeholder) or an opaque run of other characters.  A compiled          *)
(* template is its node list; a node is a record whose field t names the  *)
(* node class.                                                             *)
(***************************************************************************)
EXTENDS Integers, Sequences, FiniteSets, TLC

VARIABLES engine, builtins, ctx, last

vars == <<engine, builtins, ctx, last>>

----------------------------------------------------------------------------
(* JavaScript values *)

Str(s) == [k |-> "str", s |-> s]
SafeStr(s) == [k |-> "safe", s |-> s]
Num(n) == [k |-> "num", n |-> n]
Bool(b) == [k |-> "bool", b |-> b]
Null == [k |-> "null"]
Undef == [k |-> "undef"]
Obj(o) == [k |-> "obj", o |-> o]
List(l) == [k |-> "list", l |-> l]
Fn(name) == [k |-> "fn", f |-> name]
BlockObj(name, nodelist, bound) ==
    [k |-> "block", name |-> name, nodelist |-> nodelist, bound |-> bound]

VARIABLE_DOES_NOT_EXISTS == [k |-> "vdne"]

EmptyDict == [x \in {} |-> Null]

DictSet(d, key, value) == (key :> value) @@ d

\* objectMerge(obj1, obj2): every key of obj2 is written over obj1
objectMerge(obj1, obj2) == obj2 @@ obj1

\* copyDict(obj): a fresh object holding obj's own keys (a shallow copy)
copyDict(obj) == objectMerge(EmptyDict, obj)

\* !v of JavaScript
Falsy(v) ==
    \/ v.k \in {"null", "undef"}
    \/ v.k = "str" /\ v.s = <<>>
    \/ v.k = "num" /\ v.n = 0
    \/ v.k = "bool" /\ ~v.b

DigitPiece == [i \in 0..9 |-> CASE i = 0 -> "0" [] i = 1 -> "1" [] i = 2 -> "2"
                                [] i = 3 -> "3" [] i = 4 -> "4" [] i = 5 -> "5"
                                [] i = 6 -> "6" [] i = 7 -> "7" [] i = 8 -> "8"
                                [] OTHER -> "9"]

IsDigitPiece(p) == \E i \in 0..9 : DigitPiece[i] = p

DigitOf(p) == CHOOSE i \in 0..9 : DigitPiece[i] = p

RECURSIVE Flatten(_)
Flatten(ss) == IF ss = <<>> THEN <<>> ELSE Head(ss) \o Flatten(Tail(ss))

RECURSIVE JoinComma(_)

\* value + '' : JavaScript's conversion of a value to a primitive string
RECURSIVE ToStr(_)
ToStr(v) ==
    CASE v.k = "str" -> v.s
      [] v.k = "safe" -> v.s
      [] v.k = "num" -> IF v.n \in 0..9 THEN <<DigitPiece[v.n]>> ELSE <<"<number>">>
      [] v.k = "bool" -> IF v.b THEN <<"true">> ELSE <<"false">>
      [] v.k = "null" -> <<"null">>
      [] v.k = "undef" -> <<"undefined">>
      [] v.k = "list" -> JoinComma(v.l)
      [] v.k = "fn" -> <<"function(){", v.f, "}">>
      [] v.k = "block" -> <<"<Block Node: ", v.name, ">">>
      [] OTHER -> <<"[object Object]">>

JoinComma(l) ==
    IF l = <<>> THEN <<>>
    ELSE LET h == IF Head(l).k \in {"null", "undef"} THEN <<>> ELSE ToStr(Head(l))
         IN IF Len(l) = 1 THEN h ELSE h \o <<",">> \o JoinComma(Tail(l))

\* str.replace(/c/g, rep): every piece c becomes the pieces rep
RECURSIVE ReplaceAll(_, _, _)
ReplaceAll(s, c, rep) ==
    IF s = <<>> THEN <<>>
    ELSE (IF Head(s) = c THEN rep ELSE <<Head(s)>>) \o ReplaceAll(Tail(s), c, rep)

\* str.replace(c, rep) with a string pattern: only the first occurrence
RECURSIVE ReplaceFirst(_, _, _)
ReplaceFirst(s, c, rep) ==
    IF s = <<>> THEN <<>>
    ELSE IF Head(s) = c THEN rep \o Tail(s)
    ELSE <<Head(s)>> \o ReplaceFirst(Tail(s), c, rep)

escapeHtml(str) ==
    ReplaceAll(ReplaceAll(ReplaceAll(ReplaceAll(ReplaceAll(str,
        "&", <<"&", "amp;">>),
        "<", <<"&", "lt;">>),
        ">", <<"&", "gt;">>),
        "\"", <<"&", "quot;">>),
        "'", <<"&", "#39;">>)

markSafe(s) == IF s.k = "safe" THEN s ELSE SafeStr(s.s)

conditionalEscape(value) ==
    IF value.k \in {"null", "undef"} THEN <<>>
    ELSE IF value.k = "safe" THEN value.s
    ELSE escapeHtml(ToStr(value))

localize(value) == value

----------------------------------------------------------------------------
(* Results of an evaluation that may throw *)

Ok(v) == [err |-> "none", v |-> v]
Throw(e) == [err |-> e, v |-> Undef]

\* obj[p] for an obj that is neither null nor undefined
GetProp(obj, p) ==
    CASE obj.k = "obj" -> IF p \in DOMAIN obj.o THEN obj.o[p] ELSE Undef
      [] obj.k = "list" ->
            IF IsDigitPiece(p) /\ DigitOf(p) < Len(obj.l) THEN obj.l[DigitOf(p) + 1]
            ELSE IF p = "length" THEN Num(Len(obj.l))
            ELSE Undef
      [] obj.k = "block" ->
            IF p = "super" THEN Fn("super")
            ELSE IF p = "name" THEN Str(<<obj.name>>)
            ELSE Undef
      [] OTHER -> Undef

\* for (i...) if (!(obj = obj[p[i]])) break; return obj
\* Reading a property of null or undefined throws a TypeError.
RECURSIVE objectGetPath(_, _)
objectGetPath(obj, path) ==
    IF path = <<>> THEN Ok(obj)
    ELSE IF obj.k \in {"null", "undef"} THEN Throw("TypeError")
    ELSE LET v == GetProp(obj, Head(path))
         IN IF Falsy(v) THEN Ok(v) ELSE objectGetPath(v, Tail(path))

\* the index of the innermost frame that has key as an own property, 0 if none
RECURSIVE FindFrame(_, _, _)
FindFrame(dicts, i, key) ==
    IF i = 0 THEN 0
    ELSE IF key \in DOMAIN dicts[i] THEN i
    ELSE FindFrame(dicts, i - 1, key)

\* BaseContext.prototype.get(key, otherwise), key given as the array of segments
BaseContextGet(dicts, deepKeySearch, pathKey, otherwise) ==
    LET other == IF Falsy(otherwise) THEN Null ELSE otherwise
        topKey == pathKey[1]
        n == Len(dicts)
        i == IF deepKeySearch THEN FindFrame(dicts, n, topKey)
             ELSE IF topKey \in DOMAIN dicts[n] THEN n ELSE 0
    IN IF i # 0 THEN objectGetPath(dicts[i][topKey], Tail(pathKey))
       ELSE Ok(other)

\* BaseContext.prototype.has(key) of a RenderContext (deepKeySearch is false)
RenderContextHas(rdicts, key) == key \in DOMAIN rdicts[Len(rdicts)]

\* str.split("."): the segments between the dot pieces
RECURSIVE SplitDots(_, _)
SplitDots(s, cur) ==
    IF s = <<>> THEN <<cur>>
    ELSE IF Head(s) = "." THEN <<cur>> \o SplitDots(Tail(s), "")
    ELSE SplitDots(Tail(s), Head(s))

is_string_literal(s) ==
    /\ Len(s) >= 1
    /\ s[1] \in {"\"", "'"}
    /\ s[Len(s)] = s[1]

unescape_string_literal(s) == SubSeq(s, 2, Len(s) - 1)

\* new Variable(variable): a number literal, a quoted literal or a dotted lookup
Variable(variable) ==
    IF IsDigitPiece(variable[1])
    THEN [k |-> "Variable", variable |-> variable, literal |-> Num(DigitOf(variable[1])),
          lookups |-> <<>>, isLookup |-> FALSE]
    ELSE IF is_string_literal(variable)
    THEN [k |-> "Variable", variable |-> variable,
          literal |-> markSafe(Str(unescape_string_literal(variable))),
          lookups |-> <<>>, isLookup |-> FALSE]
    ELSE [k |-> "Variable", variable |-> variable, literal |-> Null,
          lookups |-> SplitDots(variable, ""), isLookup |-> TRUE]

\* Variable.prototype.resolve / _resolveLookup against a Context
VariableResolve(var, dicts) ==
    IF var.isLookup
    THEN BaseContextGet(dicts, TRUE, var.lookups, VARIABLE_DOES_NOT_EXISTS)
    ELSE Ok(var.literal)

\* new FilterExpression(token, parser) for a token without filters: a constant is
\* resolved at once ((new Variable(constant)).resolve({})), a variable is kept.
FilterExpression(token) ==
    IF is_string_literal(token)
    THEN [token |-> token, variableObj |-> Variable(token).literal, filters |-> <<>>]
    ELSE [token |-> token, variableObj |-> Variable(token), filters |-> <<>>]

\* a filter of a FilterExpression: [func, argDef], argDef absent (Null) here
Filter(name) == [name |-> name, arg |-> Null]

\* new FilterExpression(token, parser) for token|f1|f2...: names are the filters
FilterChain(token, names) ==
    [FilterExpression(token) EXCEPT !.filters = [i \in 1..Len(names) |-> Filter(names[i])]]

\* str.toLowerCase() and str.toUpperCase(), piece by piece: the pieces given
\* to the filters are single characters
toLowerCase(s) ==
    [i \in 1..Len(s) |-> CASE s[i] = "A" -> "a" [] s[i] = "B" -> "b" [] OTHER -> s[i]]

toUpperCase(s) ==
    [i \in 1..Len(s) |-> CASE s[i] = "a" -> "A" [] s[i] = "b" -> "B" [] OTHER -> s[i]]

\* the flags a filter of defaultTemplateLibrary is registered with
filter_options(name) ==
    [is_safe |-> name = "safe", needs_autoescape |-> FALSE]

StringFilters == {"lower", "upper", "capfirst", "safe"}

\* the function of a filter applied to its string argument
filter_func(name, str) ==
    CASE name = "lower" -> Str(toLowerCase(str))
      [] name = "upper" -> Str(toUpperCase(str))
      [] name = "capfirst" ->
            Str(toUpperCase(SubSeq(str, 1, 1)) \o SubSeq(str, 2, Len(str)))
      [] name = "safe" -> SafeStr(str)

\* stringfilter(func): the first argument is converted to a string, and the
\* result of an is_safe filter on a SafeString is marked safe
stringfilter(name, arg0) ==
    IF arg0.k = "safe" /\ filter_options(name).is_safe
    THEN markSafe(filter_func(name, IF arg0.k = "undef" THEN <<>> ELSE ToStr(arg0)))
    ELSE filter_func(name, IF arg0.k = "undef" THEN <<>> ELSE ToStr(arg0))

\* func.apply(null, [obj, null]) for the filter registered under name
FilterApply(name, obj) ==
    IF name \in StringFilters THEN stringfilter(name, obj) ELSE obj

\* one round of this.filters.forEach in FilterExpression.prototype.resolve
ApplyFilter(filter, obj) ==
    [safe \in BOOLEAN |-> IF safe THEN markSafe(FilterApply(filter.name, obj))
                          ELSE FilterApply(filter.name, obj)
    ][filter_options(filter.name).is_safe /\ obj.k = "safe"]

\* the filters applied from the last to the first
RECURSIVE ApplyFiltersReversed(_, _)
ApplyFiltersReversed(filters, obj) ==
    IF filters = <<>> THEN obj
    ELSE ApplyFiltersReversed(SubSeq(filters, 1, Len(filters) - 1),
                              ApplyFilter(filters[Len(filters)], obj))

\* this.filters.forEach(...): obj is what the filters so far have returned
RECURSIVE ApplyFilters(_, _)
ApplyFilters(filters, obj) ==
    IF filters = <<>> THEN obj
    ELSE ApplyFilters(Tail(filters), ApplyFilter(Head(filters), obj))

\* opts.ignore_failures || false, for the opts the caller passed
IgnoreFailures(opts) ==
    /\ opts.k = "obj"
    /\ "ignore_failures" \in DOMAIN opts.o
    /\ ~Falsy(opts.o["ignore_failures"])

\* obj at the head of this.filters.forEach, or what resolve has returned or
\* thrown before it
Resolved(r, returned) == [err |-> r.err, v |-> r.v, returned |-> returned]

\* the first half of resolve for a Variable that resolved to r: a missing
\* variable with a stringIfInvalid that is not empty is returned at once
FilterExpressionObj(fe, st, opts, r) ==
    IF r.err # "none" THEN Resolved(r, TRUE)
    ELSE IF r.v.k # "vdne" THEN Resolved(r, FALSE)
    ELSE IF IgnoreFailures(opts) THEN Resolved(Ok(Null), FALSE)
    ELSE IF st.template.k = "null" THEN Resolved(Throw("TypeError"), TRUE)
    ELSE IF ~Falsy(st.engine.stringIfInvalid)
    THEN Resolved(Ok(Str(ReplaceFirst(ToStr(st.engine.stringIfInvalid), "%s",
                                      fe.variableObj.variable))), TRUE)
    ELSE Resolved(Ok(st.engine.stringIfInvalid), FALSE)

\* the second half of resolve: the filters are applied to obj
FilterExpressionFiltered(fe, r) ==
    IF r.returned THEN [err |-> r.err, v |-> r.v]
    ELSE Ok(ApplyFilters(fe.filters, r.v))

\* FilterExpression.prototype.resolve(context, opts); st is the render state
FilterExpressionResolve(fe, st, opts) ==
    FilterExpressionFiltered(fe,
        IF fe.variableObj.k = "Variable"
        THEN FilterExpressionObj(fe, st, opts, VariableResolve(fe.variableObj, st.dicts))
        ELSE Resolved(Ok(fe.variableObj), FALSE))

\* render_value_in_context(value, context)
render_value_in_context(value, st) ==
    IF st.autoescape THEN conditionalEscape(localize(value)) ELSE ToStr(localize(value))

----------------------------------------------------------------------------
(* Nodes.  A template source is carried as [k |-> "src", nodelist |-> ...]: *)
(* a non-empty source text together with the node list compileNodelist     *)
(* builds from it.  The empty source text is Str(<<>>).                     *)

Source(nodelist) == [k |-> "src", nodelist |-> nodelist]

TextNode(s) == [t |-> "Text", s |-> s]

VariableNode(filter_expression) == [t |-> "Variable", filter_expression |-> filter_expression]

BlockNode(name, nodelist) == [t |-> "Block", name |-> name, nodelist |-> nodelist]

\* extra_context || null, isolated_context || false
IncludeNode(template, extra_context, isolated_context) ==
    [t |-> "Include", template |-> template,
     extra_context |-> IF Falsy(extra_context) THEN Null ELSE extra_context,
     isolated_context |-> isolated_context]

\* the include tag: namemap = options['with'] || {}, isolated = options['only'] || false
IncludeTag(template, with, only) ==
    IncludeNode(FilterExpression(template), Obj(with), only)

ForNode(loopvars, sequence, is_reversed, nodelist_loop, nodelist_empty) ==
    [t |-> "For", loopvars |-> loopvars, sequence |-> sequence, is_reversed |-> is_reversed,
     nodelist_loop |-> nodelist_loop, nodelist_empty |-> nodelist_empty]

IfNode(conditions_nodelists) ==
    [t |-> "If", conditions_nodelists |-> conditions_nodelists]

WithNode(nodelist, extra_context) ==
    [t |-> "With", nodelist |-> nodelist, extra_context |-> extra_context]

\* key stands for the node's _nodeKey, the Symbol the Node constructor makes
CycleNode(key, cyclevars, variable_name, silent) ==
    [t |-> "Cycle", key |-> key, cyclevars |-> cyclevars,
     variable_name |-> variable_name, silent |-> silent]

ResetCycleNode(node) == [t |-> "ResetCycle", node |-> node]

\* key stands for this.toString(), "<IfChangedNode #id>"
IfChangedNode(key, nodelist_true, nodelist_false, varlist) ==
    [t |-> "IfChanged", key |-> key, nodelist_true |-> nodelist_true,
     nodelist_false |-> nodelist_false, varlist |-> varlist]

FirstOfNode(variables, asvar) == [t |-> "FirstOf", vars |-> variables, asvar |-> asvar]

\* Node.prototype.getNodesByType(BlockNode) over a node list, in document order
RECURSIVE getBlockNodes(_)
getBlockNodes(nodes) ==
    IF nodes = <<>> THEN <<>>
    ELSE LET n == Head(nodes)
             own == CASE n.t = "Block" -> <<n>> \o getBlockNodes(n.nodelist)
                      [] n.t = "Extends" -> getBlockNodes(n.nodelist)
                      [] n.t = "With" -> getBlockNodes(n.nodelist)
                      [] n.t = "For" -> getBlockNodes(n.nodelist_loop)
                                         \o getBlockNodes(n.nodelist_empty)
                      [] n.t = "If" ->
                            getBlockNodes(Flatten([i \in 1..Len(n.conditions_nodelists) |->
                                                      n.conditions_nodelists[i][2]]))
                      [] n.t = "IfChanged" -> getBlockNodes(n.nodelist_true)
                                               \o getBlockNodes(n.nodelist_false)
                      [] OTHER -> <<>>
         IN own \o getBlockNodes(Tail(nodes))

\* blocks[n.name] = n for each block node in order: the last of a name stays
RECURSIVE BlocksByName(_, _)
BlocksByName(bs, acc) ==
    IF bs = <<>> THEN acc
    ELSE BlocksByName(Tail(bs), DictSet(acc, Head(bs).name, Head(bs)))

ExtendsNode(nodelist, parent_name) ==
    [t |-> "Extends", nodelist |-> nodelist, parent_name |-> parent_name,
     blocks |-> BlocksByName(getBlockNodes(nodelist), EmptyDict)]

\* new Template(source, name, engine)
Template(source, name) ==
    [k |-> "Template", name |-> name,
     nodelist |-> IF source.k = "src" THEN source.nodelist
                  ELSE IF ToStr(source) = <<>> THEN <<>>
                  ELSE <<TextNode(ToStr(source))>>]

----------------------------------------------------------------------------
(* TemplateEngine *)

DefaultStringIfInvalid == Str(<<>>)

\* setDefaults(opts, defaults) followed by the reads of the constructor
OptionOr(options, name, default) ==
    IF Falsy(options) THEN default
    ELSE IF options.k = "obj" /\ name \in DOMAIN options.o THEN options.o[name]
    ELSE default

\* new TemplateEngine(templateSources, options); compiled counts, for each
\* name, the runs of new Template(source, name, this) in getTemplate
TemplateEngine(templateSources, options) ==
    [stringIfInvalid |-> OptionOr(options, "string_if_invalid", DefaultStringIfInvalid),
     autoescape |-> OptionOr(options, "autoescape", Bool(TRUE)),
     debug |-> OptionOr(options, "debug", Bool(FALSE)),
     templates |-> EmptyDict,
     compiled |-> EmptyDict,
     templateSources |-> IF Falsy(templateSources) THEN EmptyDict ELSE templateSources.o]

\* the property key a value is converted to
PropKey(v) ==
    LET s == ToStr(v)
    IN IF s = <<>> THEN "" ELSE IF Len(s) = 1 THEN s[1] ELSE "<joined>"

\* what this.templates = {} inherits from Object.prototype
ObjectPrototype == [x \in {"constructor"} |-> Fn("Object")]

\* the run of new Template(...) for key is counted
Compiled(eng, key) ==
    DictSet(eng.compiled, key,
            IF key \in DOMAIN eng.compiled THEN eng.compiled[key] + 1 ELSE 1)

\* getTemplate without the test of this.templates[template_name]
getTemplateUncached(eng, template_name) ==
    LET key == PropKey(template_name)
    IN IF key \in DOMAIN eng.templateSources /\ ~Falsy(eng.templateSources[key])
       THEN LET t == Template(eng.templateSources[key], key)
            IN [err |-> "none", t |-> t,
                eng |-> [eng EXCEPT !.templates = DictSet(@, key, t),
                                    !.compiled = Compiled(eng, key)]]
       ELSE [err |-> "TemplateDoesNotExist", t |-> Null, eng |-> eng]

\* TemplateEngine.prototype.getTemplate(template_name): this.templates[name]
\* and this.templateSources[name] are tested for truth
getTemplate(eng, template_name) ==
    LET key == PropKey(template_name)
    IN IF key \in DOMAIN eng.templates
       THEN [err |-> "none", t |-> eng.templates[key], eng |-> eng]
       ELSE IF key \in DOMAIN ObjectPrototype
       THEN [err |-> "none", t |-> ObjectPrototype[key], eng |-> eng]
       ELSE IF key \in DOMAIN eng.templateSources /\ ~Falsy(eng.templateSources[key])
       THEN LET t == Template(eng.templateSources[key], key)
            IN [err |-> "none", t |-> t,
                eng |-> [eng EXCEPT !.templates = DictSet(@, key, t),
                                    !.compiled = Compiled(eng, key)]]
       ELSE [err |-> "TemplateDoesNotExist", t |-> Null, eng |-> eng]

----------------------------------------------------------------------------
(* Context and RenderContext: the render state st holds the Context's      *)
(* frames (dicts), its autoescape flag and bound template, its             *)
(* RenderContext's frames (rdicts) and template (rtemplate), the global    *)
(* variable initial that pushState assigns, and the engine.                *)

\* new Context(dict): autoescape defaults to true, a new RenderContext
NewContext(dict, blt) ==
    [dicts |-> IF dict.k \in {"null", "undef"} THEN <<blt>> ELSE <<blt, copyDict(dict.o)>>,
     autoescape |-> TRUE,
     template |-> Null,
     rdicts |-> <<blt>>,
     rtemplate |-> Null]

\* evaluated lists, in order, the operands of {% if %} conditions this render
\* has evaluated; log holds what the renders that returned left changed
StateOf(c, eng, initial) ==
    [dicts |-> c.dicts, autoescape |-> c.autoescape, template |-> c.template,
     rdicts |-> c.rdicts, rtemplate |-> c.rtemplate, initial |-> initial, engine |-> eng,
     evaluated |-> <<>>, log |-> {}]

ContextOf(st) ==
    [dicts |-> st.dicts, autoescape |-> st.autoescape, template |-> st.template,
     rdicts |-> st.rdicts, rtemplate |-> st.rtemplate]

\* this.dicts.push(dict)
PushFrame(dicts, dict) == Append(dicts, dict)

\* this.dicts.pop()
PopFrame(dicts) == SubSeq(dicts, 1, Len(dicts) - 1)

\* BaseContext.prototype.set(key, value): the innermost frame
ContextSet(dicts, key, value) ==
    [dicts EXCEPT ![Len(dicts)] = DictSet(@, key, value)]

\* BaseContext.prototype.setUpward(key, value): the innermost frame that has
\* the key, the innermost frame if none has
ContextSetUpward(dicts, key, value) ==
    [dicts EXCEPT ![IF FindFrame(dicts, Len(dicts), key) = 0 THEN Len(dicts)
                    ELSE FindFrame(dicts, Len(dicts), key)] = DictSet(@, key, value)]

\* BaseContext.prototype.has(key): with deepKeySearch the loop starts at
\* i = dicts.length and reads dicts[i], which is undefined, and
\* Object.hasOwnProperty.call(undefined, key) throws
BaseContextHas(dicts, deepKeySearch, key) ==
    IF deepKeySearch THEN Throw("TypeError")
    ELSE Ok(Bool(key \in DOMAIN dicts[Len(dicts)]))

Out(st, out) == [err |-> "none", out |-> out, st |-> st]
Fail(st, e) == [err |-> e, out |-> <<>>, st |-> st]

----------------------------------------------------------------------------
(* RenderContext.prototype.pushState(template, fn, isolated_context), split *)
(* around the call of fn.  initial is assigned without a declaration, so it *)
(* is one global variable shared by every call.                            *)

PushStateEnter(st, template, isolated_context) ==
    [st EXCEPT !.initial = st.rtemplate,
               !.rtemplate = template,
               !.rdicts = IF isolated_context THEN PushFrame(@, EmptyDict) ELSE @]

PushStateExit(st, out, isolated_context) ==
    LET s1 == [st EXCEPT !.rtemplate = st.initial]
    IN IF ~isolated_context THEN Out(s1, out)
       ELSE IF Len(s1.rdicts) = 1 THEN Fail(s1, "ContextPopException")
       ELSE Out([s1 EXCEPT !.rdicts = PopFrame(@)], out)

----------------------------------------------------------------------------
(* BlockContext: for each block name the list of its overrides *)

BLOCK_CONTEXT_KEY == "block_context"

NewBlockContext == [k |-> "BlockContext", blocks |-> EmptyDict]

\* the same with push in the place of unshift
add_blocksAppending(bc, blocks) ==
    [bc EXCEPT !.blocks =
        [n \in DOMAIN bc.blocks \cup DOMAIN blocks |->
            IF n \notin DOMAIN blocks THEN bc.blocks[n]
            ELSE IF n \in DOMAIN bc.blocks THEN bc.blocks[n] \o <<blocks[n]>>
            ELSE <<blocks[n]>>]]

\* BlockContext.prototype.add_blocks(blocks): a new name gets [block], a known
\* name gets the block at the front of its list (unshift)
add_blocks(bc, blocks) ==
    [bc EXCEPT !.blocks =
        [n \in DOMAIN bc.blocks \cup DOMAIN blocks |->
            IF n \notin DOMAIN blocks THEN bc.blocks[n]
            ELSE IF n \in DOMAIN bc.blocks THEN <<blocks[n]>> \o bc.blocks[n]
            ELSE <<blocks[n]>>]]

\* BlockContext.prototype.pop(name): the last of the list, or null
BlockContextPop(bc, name) ==
    IF name \in DOMAIN bc.blocks /\ bc.blocks[name] # <<>>
    THEN [found |-> TRUE, block |-> bc.blocks[name][Len(bc.blocks[name])],
          bc |-> [bc EXCEPT !.blocks[name] = PopFrame(@)]]
    ELSE [found |-> FALSE, block |-> Null, bc |-> bc]

\* BlockContext.prototype.push(name, block)
BlockContextPush(bc, name, block) ==
    IF name \notin DOMAIN bc.blocks
    THEN [bc EXCEPT !.blocks = DictSet(@, name, <<block>>)]
    ELSE [bc EXCEPT !.blocks[name] = Append(@, block)]

\* nodelist.length read as a property: NodeList.prototype.length is a method
NodeListLengthProperty == Fn("length")

\* i < v of JavaScript for a number i: a function converts to NaN, and no
\* comparison with NaN is true
LessThan(i, v) == v.k = "num" /\ i < v.n

\* the first node of a node list that is not a TextNode, Null if none
RECURSIVE FirstNonText(_)
FirstNonText(nodes) ==
    IF nodes = <<>> THEN Null
    ELSE IF Head(nodes).t # "Text" THEN Head(nodes)
    ELSE FirstNonText(Tail(nodes))

\* the loop of ExtendsNode.prototype.render that adds the root template's own
\* blocks: its condition is i < nodelist.length
AddRootBlocks(bc, parent) ==
    IF LessThan(0, NodeListLengthProperty)
    THEN LET f == FirstNonText(parent.nodelist)
         IN IF "t" \in DOMAIN f /\ f.t # "Extends"
            THEN add_blocks(bc, BlocksByName(getBlockNodes(parent.nodelist), EmptyDict))
            ELSE bc
    ELSE bc

----------------------------------------------------------------------------
(* The condition of {% if %}: IfParser and the operators.  A bit of the    *)
(* tag is a sequence of pieces, <<"and">> or <<"a", ".", "b">>.            *)

\* OPERATORS with the binding powers of or and and exchanged
OPERATORSSwapped ==
    [id \in {"or", "and", "not", "in", "not in", "is", "is not", "===", "!==",
             "==", "!=", ">", ">=", "<", "<="} |->
        CASE id = "or" -> [t |-> "infix", lbp |-> 7]
          [] id = "and" -> [t |-> "infix", lbp |-> 6]
          [] id = "not" -> [t |-> "prefix", lbp |-> 8]
          [] id \in {"in", "not in"} -> [t |-> "infix", lbp |-> 9]
          [] OTHER -> [t |-> "infix", lbp |-> 10]]

\* OPERATORS: the fixity and the binding power each entry constructs its
\* operator with
OPERATORS ==
    [id \in {"or", "and", "not", "in", "not in", "is", "is not", "===", "!==",
             "==", "!=", ">", ">=", "<", "<="} |->
        CASE id = "or" -> [t |-> "infix", lbp |-> 6]
          [] id = "and" -> [t |-> "infix", lbp |-> 7]
          [] id = "not" -> [t |-> "prefix", lbp |-> 8]
          [] id \in {"in", "not in"} -> [t |-> "infix", lbp |-> 9]
          [] OTHER -> [t |-> "infix", lbp |-> 10]]

\* new InfixOperator(bp, cmp) / new PrefixOperator(bp, cmp): id names the cmp
Operator(id) ==
    [t |-> OPERATORS[id].t, id |-> id, lbp |-> OPERATORS[id].lbp,
     first |-> Null, second |-> Null]

\* TemplateIfParser.prototype.createVar(value): a TemplateLiteral
TemplateLiteral(value) ==
    [t |-> "literal", id |-> "literal", lbp |-> 0, text |-> value,
     value |-> FilterExpression(value)]

\* endToken
endToken == [t |-> "end", id |-> "end", lbp |-> 0]

\* IfParser.prototype.translateToken(token)
translateToken(token) ==
    IF Len(token) = 1 /\ token[1] \in DOMAIN OPERATORS THEN Operator(token[1])
    ELSE TemplateLiteral(token)

\* the loop of the IfParser constructor: "is" "not" and "not" "in" are merged
RECURSIVE mappedTokens(_, _)
mappedTokens(tokens, i) ==
    IF i > Len(tokens) THEN <<>>
    ELSE IF tokens[i] = <<"is">> /\ i + 1 <= Len(tokens) /\ tokens[i + 1] = <<"not">>
    THEN <<translateToken(<<"is not">>)>> \o mappedTokens(tokens, i + 2)
    ELSE IF tokens[i] = <<"not">> /\ i + 1 <= Len(tokens) /\ tokens[i + 1] = <<"in">>
    THEN <<translateToken(<<"not in">>)>> \o mappedTokens(tokens, i + 2)
    ELSE <<translateToken(tokens[i])>> \o mappedTokens(tokens, i + 1)

\* IfParser.prototype.nextToken: the parser after this.currentToken = this.nextToken()
nextToken(ps) ==
    IF ps.pos >= Len(ps.tokens) THEN [ps EXCEPT !.currentToken = endToken]
    ELSE [ps EXCEPT !.currentToken = ps.tokens[ps.pos + 1], !.pos = ps.pos + 1]

\* new IfParser(tokens)
IfParser(tokens) ==
    nextToken([tokens |-> mappedTokens(tokens, 1), pos |-> 0, currentToken |-> endToken])

Parsed(left, ps) == [err |-> "none", msg |-> <<>>, left |-> left, ps |-> ps]
ParseError(e, msg, ps) == [err |-> e, msg |-> msg, left |-> Null, ps |-> ps]

\* PrefixOperator.prototype.nud, r being what parser.expression(this.lbp) returned
PrefixNud(t, r) ==
    IF r.err # "none" THEN r ELSE Parsed([t EXCEPT !.first = r.left], r.ps)

\* InfixOperator.prototype.led(lhs, parser), r being what
\* parser.expression(this.lbp) returned
InfixLed(t, lhs, r) ==
    IF r.err # "none" THEN r
    ELSE Parsed([t EXCEPT !.first = lhs, !.second = r.left], r.ps)

RECURSIVE expression(_, _)
RECURSIVE LedLoop(_, _)

\* t.nud(this) for the token t, the parser having advanced to ps: a literal
\* returns itself, endToken throws, an InfixOperator has no nud
Nud(t, ps) ==
    CASE t.t = "literal" -> Parsed(t, ps)
      [] t.t = "prefix" -> PrefixNud(t, expression(ps, t.lbp))
      [] t.t = "infix" -> ParseError("TypeError", <<"t.nud is not a function">>, ps)
      [] t.t = "end" ->
            ParseError("TemplateError", <<"Unexpected end of expression in if tag.">>, ps)

\* t.led(left, this): a PrefixOperator has no led; a literal and endToken have
\* lbp 0 and never come here
Led(t, left, ps) ==
    IF t.t = "infix" THEN InfixLed(t, left, expression(ps, t.lbp))
    ELSE ParseError("TypeError", <<"t.led is not a function">>, ps)

\* the while loop of IfParser.prototype.expression, r holding left
LedLoop(r, rbp) ==
    IF r.err # "none" THEN r
    ELSE IF rbp < r.ps.currentToken.lbp
    THEN LedLoop(Led(r.ps.currentToken, r.left, nextToken(r.ps)), rbp)
    ELSE r

\* IfParser.prototype.expression(rbp)
expression(ps, rbp) == LedLoop(Nud(ps.currentToken, nextToken(ps)), rbp)

\* TokenBase.prototype.display / TemplateLiteral.prototype.display
display(t) == IF t.t = "literal" THEN t.text ELSE <<t.id>>

\* the end of IfParser.prototype.parse: all the tokens must be used
IfParserExhausted(r) ==
    IF r.err # "none" THEN r
    ELSE IF r.ps.currentToken # endToken
    THEN ParseError("TemplateError",
                    <<"Unused ">> \o display(r.ps.currentToken)
                        \o <<" at end of if expression.">>, r.ps)
    ELSE r

\* (new TemplateIfParser(parser, bits)).parse()
IfParserParse(bits) == IfParserExhausted(expression(IfParser(bits), 0))

----------------------------------------------------------------------------
(* The evaluation of a condition *)

Evaluated(v, seen) == [err |-> "none", v |-> v, seen |-> seen]

\* Number(v) for the comparisons; ok is false for NaN
ToNumber(v) ==
    CASE v.k = "num" -> [ok |-> TRUE, n |-> v.n]
      [] v.k = "bool" -> [ok |-> TRUE, n |-> IF v.b THEN 1 ELSE 0]
      [] v.k = "null" -> [ok |-> TRUE, n |-> 0]
      [] v.k \in {"str", "safe"} /\ v.s = <<>> -> [ok |-> TRUE, n |-> 0]
      [] v.k \in {"str", "safe"} /\ Len(v.s) = 1 /\ IsDigitPiece(v.s[1]) ->
            [ok |-> TRUE, n |-> DigitOf(v.s[1])]
      [] OTHER -> [ok |-> FALSE, n |-> 0]

\* x === y
StrictEquals(x, y) == x.k = y.k /\ x = y

\* x == y
LooseEquals(x, y) ==
    IF x.k = y.k THEN x = y
    ELSE IF x.k \in {"null", "undef"} \/ y.k \in {"null", "undef"}
    THEN x.k \in {"null", "undef"} /\ y.k \in {"null", "undef"}
    ELSE IF {x.k, y.k} \subseteq {"num", "bool", "str"}
    THEN ToNumber(x).ok /\ ToNumber(y).ok /\ ToNumber(x).n = ToNumber(y).n
    ELSE FALSE

\* x < y, for operands that are not both strings
LessThanValue(x, y) == ToNumber(x).ok /\ ToNumber(y).ok /\ ToNumber(x).n < ToNumber(y).n

\* keys(y) for an object that has no length
KeysOf(y) == IF y.k = "obj" THEN {Str(<<key>>) : key \in DOMAIN y.o} ELSE {}

\* in_operator(x, y) for an x that is not an Object: a substring test for two
\* strings, else the search x == y[i] over the items, the keys or the pieces
in_operator(x, y) ==
    IF x.k = "str" /\ y.k = "str"
    THEN \E i \in 0..Len(y.s) : \E j \in i..Len(y.s) : SubSeq(y.s, i + 1, j) = x.s
    ELSE IF x.k \in {"null", "undef"} \/ y.k \in {"null", "undef"} THEN FALSE
    ELSE IF y.k = "list" THEN \E i \in 1..Len(y.l) : LooseEquals(x, y.l[i])
    ELSE IF y.k = "str" THEN \E i \in 1..Len(y.s) : LooseEquals(x, Str(<<y.s[i]>>))
    ELSE IF y.k \in {"num", "bool"} THEN FALSE
    ELSE \E key \in KeysOf(y) : LooseEquals(x, key)

\* the cmp of the comparison id applied to the values of its operands; x
\* instanceof y throws unless y is a function
Compare(id, x, y) ==
    CASE id \in {"is", "is not"} ->
            IF y.k # "fn" THEN Throw("TypeError") ELSE Ok(Bool(id = "is not"))
      [] id = "in" -> Ok(Bool(in_operator(x, y)))
      [] id = "not in" -> Ok(Bool(~in_operator(x, y)))
      [] id = "===" -> Ok(Bool(StrictEquals(x, y)))
      [] id = "!==" -> Ok(Bool(~StrictEquals(x, y)))
      [] id = "==" -> Ok(Bool(LooseEquals(x, y)))
      [] id = "!=" -> Ok(Bool(~LooseEquals(x, y)))
      [] id = ">" -> Ok(Bool(LessThanValue(y, x)))
      [] id = ">=" -> Ok(Bool(ToNumber(x).ok /\ ToNumber(y).ok /\ ToNumber(x).n >= ToNumber(y).n))
      [] id = "<" -> Ok(Bool(LessThanValue(x, y)))
      [] id = "<=" -> Ok(Bool(ToNumber(x).ok /\ ToNumber(y).ok /\ ToNumber(x).n <= ToNumber(y).n))

\* this.cmp(...) without the try
Uncaught(r) == r

\* try { return this.cmp(...) } catch(e) { return false }
Caught(r) == IF r.err # "none" THEN Evaluated(Bool(FALSE), r.seen) ELSE r

RECURSIVE evaluate(_, _, _)

\* x.evaluate(context) && y.evaluate(context), x evaluated
AndRight(c, st, x) ==
    IF x.err # "none" \/ Falsy(x.v) THEN x ELSE evaluate(c.second, st, x.seen)

\* an 'or' that stops on a falsy left operand instead of a truthy one
OrRightStopsOnFalsy(c, st, x) ==
    IF x.err # "none" \/ Falsy(x.v) THEN x ELSE evaluate(c.second, st, x.seen)

\* x.evaluate(context) || y.evaluate(context), x evaluated
OrRight(c, st, x) ==
    IF x.err # "none" \/ ~Falsy(x.v) THEN x ELSE evaluate(c.second, st, x.seen)

\* !x.evaluate(context)
NotOf(x) == IF x.err # "none" THEN x ELSE Evaluated(Bool(Falsy(x.v)), x.seen)

\* the cmp of a comparison, both operands evaluated
Compared(id, x, y) ==
    IF y.err # "none" THEN y
    ELSE [err |-> Compare(id, x.v, y.v).err, v |-> Compare(id, x.v, y.v).v, seen |-> y.seen]

\* the cmp of a comparison, x evaluated
CompareRight(c, st, x) ==
    IF x.err # "none" THEN x ELSE Compared(c.id, x, evaluate(c.second, st, x.seen))

\* TemplateLiteral.prototype.evaluate: this.value.resolve(context,
\* {ignore_failures: true})
LiteralEvaluate(c, st, seen) ==
    LET r == FilterExpressionResolve(c.value, st,
                                     Obj([o \in {"ignore_failures"} |-> Bool(TRUE)]))
    IN [err |-> r.err, v |-> r.v, seen |-> Append(seen, c.text)]

\* evaluate(context) of the condition c; seen lists the operands evaluated
evaluate(c, st, seen) ==
    CASE c.t = "literal" -> LiteralEvaluate(c, st, seen)
      [] c.t = "prefix" -> Caught(NotOf(evaluate(c.first, st, seen)))
      [] c.id = "or" -> Caught(OrRight(c, st, evaluate(c.first, st, seen)))
      [] c.id = "and" -> Caught(AndRight(c, st, evaluate(c.first, st, seen)))
      [] OTHER -> Caught(CompareRight(c, st, evaluate(c.first, st, seen)))

----------------------------------------------------------------------------
(* Rendering *)

Reverse(l) == [i \in 1..Len(l) |-> l[Len(l) + 1 - i]]

\* values.reverse() reverses the array itself: the frame that holds it under
\* a one-segment name sees the reversed array
ReverseInPlace(dicts, fe) ==
    IF fe.variableObj.k = "Variable" /\ fe.variableObj.isLookup
       /\ Len(fe.variableObj.lookups) = 1
    THEN LET key == fe.variableObj.lookups[1]
             i == FindFrame(dicts, Len(dicts), key)
         IN IF i # 0 /\ dicts[i][key].k = "list"
            THEN [dicts EXCEPT ![i] = DictSet(@, key, List(Reverse(dicts[i][key].l)))]
            ELSE dicts
    ELSE dicts

\* Context.prototype.newContext(values): the same flags and bound template,
\* only values stored, and (the option being read as render_context) a new
\* RenderContext
newContext(st, values) ==
    [dicts |-> <<st.dicts[1], copyDict(values)>>,
     autoescape |-> st.autoescape,
     template |-> st.template,
     rdicts |-> <<st.dicts[1]>>,
     rtemplate |-> Null,
     initial |-> st.initial,
     engine |-> st.engine,
     evaluated |-> st.evaluated,
     log |-> st.log]

\* what the outer context sees when a render with another Context returns:
\* the engine, the global initial and the shared built-ins frame
AfterInner(st, inner) ==
    [st EXCEPT !.engine = inner.engine,
               !.initial = inner.initial,
               !.evaluated = inner.evaluated,
               !.log = inner.log,
               !.dicts = [@ EXCEPT ![1] = inner.dicts[1]]]

\* the with-bindings resolved in the including context, or the first error
ResolvedAll(rs) ==
    IF \E n \in DOMAIN rs : rs[n].err # "none"
    THEN Throw(rs[CHOOSE n \in DOMAIN rs : rs[n].err # "none"].err)
    ELSE Ok([n \in DOMAIN rs |-> rs[n].v])

ResolveAll(extra, st) ==
    ResolvedAll([n \in DOMAIN extra |-> FilterExpressionResolve(extra[n], st, Undef)])

RECURSIVE RenderNode(_, _)
RECURSIVE RenderNodeList(_, _, _)
RECURSIVE TemplateRender(_, _)
RECURSIVE ForIterate(_, _, _, _, _, _)

\* the same with the frame left on the stack
PopAfterKept(r) == r

\* the rest of BaseContext.prototype.push(dict, f) once f has run: the frame is
\* popped when f returned, and stays when f threw
PopAfter(r) ==
    IF r.err # "none" THEN r
    ELSE Out([r.st EXCEPT !.dicts = PopFrame(@)], r.out)

\* the loop of NodeList.prototype.render after the bit r of one node
RenderRest(nodes, acc, r) ==
    IF r.err # "none" THEN r
    ELSE RenderNodeList(nodes, r.st, acc \o r.out)

\* NodeList.prototype.render(context): every bit is joined; an error of a node
\* ends the render where it is
RenderNodeList(nodes, st, acc) ==
    IF nodes = <<>> THEN Out(st, acc)
    ELSE RenderRest(Tail(nodes), acc, RenderNode(Head(nodes), st))

\* the first half of Context.prototype.bindTemplate, under the test of
\* Template.prototype.render that the context is not bound yet
bindTemplate(st, t) ==
    IF st.template.k = "null" THEN [st EXCEPT !.template = t] ELSE st

\* what follows the render r of the node list in Template.prototype.render:
\* the context is unbound if this render bound it, then pushState ends
TemplateRenderExit(bind, r) ==
    IF r.err # "none" THEN r
    ELSE PushStateExit(IF bind THEN [r.st EXCEPT !.template = Null] ELSE r.st,
                       r.out, TRUE)

\* a render that returned with another depth of the Context or of the
\* RenderContext than it started with is noted in the log
DepthNoted(of, dicts, rdicts, r) ==
    IF r.err = "none" /\ (Len(r.st.dicts) # dicts \/ Len(r.st.rdicts) # rdicts)
    THEN [r EXCEPT !.st.log = @ \cup {[e |-> "depth", of |-> of]}]
    ELSE r

DepthKept(of, st, r) ==
    CHOOSE y \in {DepthNoted(of, s[1], s[2], x) :
                      s \in {<<Len(st.dicts), Len(st.rdicts)>>}, x \in {r}} : TRUE

\* a render of a template that returned with another renderContext.template
\* than it started with is noted in the log
TemplateNoted(of, rtemplate, r) ==
    IF r.err = "none" /\ r.st.rtemplate # rtemplate
    THEN [r EXCEPT !.st.log = @ \cup {[e |-> "template", of |-> of]}]
    ELSE r

TemplateKept(of, st, r) ==
    CHOOSE y \in {TemplateNoted(of, t, x) : t \in {st.rtemplate}, x \in {r}} : TRUE

\* Template.prototype.render(context)
TemplateRender(t, st) ==
    TemplateKept(t.name, st, DepthKept("Template", st,
        TemplateRenderExit(st.template.k = "null",
            RenderNodeList(t.nodelist, bindTemplate(PushStateEnter(st, t, TRUE), t), <<>>))))

\* VariableNode.prototype.render
VariableRender(node, st) ==
    LET r == FilterExpressionResolve(node.filter_expression, st, Undef)
    IN IF r.err # "none" THEN Fail(st, r.err)
       ELSE Out(st, render_value_in_context(r.v, st))

\* the overrides the block context of the current RenderContext frame holds
\* for a block name
BlockStack(st, name) ==
    IF /\ BLOCK_CONTEXT_KEY \in DOMAIN st.rdicts[Len(st.rdicts)]
       /\ name \in DOMAIN st.rdicts[Len(st.rdicts)][BLOCK_CONTEXT_KEY].blocks
    THEN st.rdicts[Len(st.rdicts)][BLOCK_CONTEXT_KEY].blocks[name]
    ELSE <<>>

\* a render of a block that returned with other overrides of its name than it
\* started with is noted in the log
BlocksNoted(name, blocks, r) ==
    IF r.err = "none" /\ BlockStack(r.st, name) # blocks
    THEN [r EXCEPT !.st.log = @ \cup {[e |-> "blocks", of |-> name]}]
    ELSE r

BlocksKept(name, st, r) ==
    CHOOSE y \in {BlocksNoted(name, b, x) : b \in {BlockStack(st, name)}, x \in {r}} : TRUE

\* the same without block_context.push(self.name, push)
BlockRenderExitPopped(node, bi, p, r) ==
    IF r.err # "none" THEN r
    ELSE Out([r.st EXCEPT !.dicts = PopFrame(@)], r.out)

\* the end of BlockNode.prototype.render with a block context: the block that
\* was popped is pushed back, then the frame of context.push is popped
BlockRenderExit(node, bi, p, r) ==
    IF r.err # "none" THEN r
    ELSE LET s3 == IF p.found
                   THEN [r.st EXCEPT !.rdicts = [@ EXCEPT ![bi] =
                           DictSet(@, BLOCK_CONTEXT_KEY,
                               BlockContextPush(@[BLOCK_CONTEXT_KEY], node.name, p.block))]]
                   ELSE r.st
         IN Out([s3 EXCEPT !.dicts = PopFrame(@)], r.out)

\* BlockNode.prototype.render
BlockRender(node, st) ==
    LET bi == Len(st.rdicts)
        bc == BaseContextGet(st.rdicts, FALSE, <<BLOCK_CONTEXT_KEY>>, Undef).v
        s1 == [st EXCEPT !.dicts = PushFrame(@, EmptyDict)]
        p == BlockContextPop(bc, node.name)
        block == IF p.found THEN p.block ELSE node
    IN IF bc.k = "null"
       THEN PopAfter(RenderNodeList(node.nodelist,
                [s1 EXCEPT !.dicts =
                    ContextSet(@, "block", BlockObj(node.name, node.nodelist, FALSE))],
                <<>>))
       ELSE BlockRenderExit(node, bi, p,
                RenderNodeList(block.nodelist,
                    [s1 EXCEPT
                       !.rdicts = [@ EXCEPT ![bi] = DictSet(@, BLOCK_CONTEXT_KEY, p.bc)],
                       !.dicts = ContextSet(@, "block",
                                     BlockObj(block.name, block.nodelist, TRUE))],
                    <<>>))

\* the end of pushState(compiled_parent, fn, false) once fn has run
ExtendsRenderExit(r) ==
    IF r.err # "none" THEN r
    ELSE PushStateExit(r.st, r.out, FALSE)

\* ExtendsNode.prototype.getParent and render
ExtendsRender(node, st) ==
    LET pr == FilterExpressionResolve(node.parent_name, st, Undef)
        g == getTemplate(st.engine, pr.v)
        top == Len(st.rdicts)
        had == RenderContextHas(st.rdicts, BLOCK_CONTEXT_KEY)
        bc0 == IF had THEN st.rdicts[top][BLOCK_CONTEXT_KEY] ELSE NewBlockContext
        bc1 == AddRootBlocks(add_blocks(bc0, node.blocks), g.t)
        s1 == [st EXCEPT !.engine = g.eng,
                         !.rdicts = [@ EXCEPT ![top] = DictSet(@, BLOCK_CONTEXT_KEY, bc1)]]
    IN IF pr.err # "none" THEN Fail(st, pr.err)
       ELSE IF Falsy(pr.v) THEN Fail(st, "TemplateSyntaxError")
       ELSE IF st.template.k = "null" THEN Fail(st, "TypeError")
       ELSE IF g.err # "none" THEN Fail(st, g.err)
       ELSE TemplateKept(g.t.name, st, ExtendsRenderExit(
                RenderNodeList(g.t.nodelist, PushStateEnter(s1, g.t, FALSE), <<>>)))

\* the return of template.render(context.newContext(values)) into the
\* including render
IncludeIsolatedExit(s1, r) ==
    [err |-> r.err, out |-> r.out, st |-> AfterInner(s1, r.st)]

\* IncludeNode.prototype.render
IncludeRender(node, st) ==
    LET tr == FilterExpressionResolve(node.template, st, Undef)
        g == getTemplate(st.engine, tr.v)
        values == EmptyDict
        s1 == [st EXCEPT !.engine = g.eng]
    IN IF tr.err # "none" THEN Fail(st, tr.err)
       ELSE IF tr.v.k \in {"null", "undef"} THEN Fail(st, "TypeError")
       ELSE IF st.template.k = "null" THEN Fail(st, "TypeError")
       ELSE IF g.err # "none" THEN Fail(st, g.err)
       ELSE IF Falsy(node.extra_context) THEN Fail(st, "TypeError")
       ELSE IF node.isolated_context
       THEN IncludeIsolatedExit(s1, TemplateRender(g.t, newContext(s1, values)))
       ELSE PopAfter(TemplateRender(g.t,
                [s1 EXCEPT !.dicts = PushFrame(@, copyDict(values))]))

\* WithNode.prototype.render
WithRender(node, st) ==
    LET vr == ResolveAll(node.extra_context, st)
    IN IF vr.err # "none" THEN Fail(st, vr.err)
       ELSE PopAfter(RenderNodeList(node.nodelist,
                [st EXCEPT !.dicts = PushFrame(@, copyDict(vr.v))], <<>>))

\* self.nodelist_loop.forEach(node => nodelist.push(node.renderAnnotated(context)))
RenderLoopBody(nodes, st, acc) == RenderNodeList(nodes, st, acc)

\* the end of one round of the callback of values.forEach: context.pop() of an
\* unpacked item, then the next item
ForIterateNext(node, values, i, fi, unpack, acc, r) ==
    IF r.err # "none" THEN r
    ELSE IF unpack /\ Len(r.st.dicts) = 1 THEN Fail(r.st, "ContextPopException")
    ELSE ForIterate(node, values, i + 1, fi,
                    IF unpack THEN [r.st EXCEPT !.dicts = PopFrame(@)] ELSE r.st,
                    acc \o r.out)

\* a loop_dict whose reverse counters count the items left after this one
LoopDictRevFromZero(old, i, len_values) ==
    Obj([old EXCEPT !["counter0"] = Num(i),
                    !["counter"] = Num(i + 1),
                    !["revcounter"] = Num(len_values - i - 1),
                    !["revcounter0"] = Num(len_values - i - 1),
                    !["first"] = Bool(i = 0),
                    !["last"] = Bool(i = len_values - 1)])

\* the assignments to loop_dict at the head of the callback, i the index
\* forEach passes (from 0)
LoopDict(old, i, len_values) ==
    Obj([old EXCEPT !["counter0"] = Num(i),
                    !["counter"] = Num(i + 1),
                    !["revcounter"] = Num(len_values - i),
                    !["revcounter0"] = Num(len_values - i - 1),
                    !["first"] = Bool(i = 0),
                    !["last"] = Bool(i = len_values - 1)])

\* the callback of values.forEach in ForNode.prototype.render, from item i on;
\* fi is the index of the frame that holds forloop
ForIterate(node, values, i, fi, st, acc) ==
    IF i > Len(values) THEN Out(st, acc)
    ELSE LET n == Len(values)
             loop_dict == LoopDict(st.dicts[fi]["forloop"].o, i - 1, n)
             s1 == [st EXCEPT !.dicts = [@ EXCEPT ![fi] = DictSet(@, "forloop", loop_dict)]]
             unpack == Len(node.loopvars) > 1
             item == IF unpack /\ values[i].k # "list" THEN List(<<values[i]>>)
                     ELSE values[i]
             s2 == IF unpack
                   THEN [s1 EXCEPT !.dicts = PushFrame(@,
                            [v \in {node.loopvars[j] : j \in 1..Len(node.loopvars)} |->
                                item.l[CHOOSE j \in 1..Len(node.loopvars) :
                                           node.loopvars[j] = v
                                           /\ \A m \in (j + 1)..Len(node.loopvars) :
                                                  node.loopvars[m] # v]])]
                   ELSE [s1 EXCEPT !.dicts = ContextSet(@, node.loopvars[1], item)]
         IN IF unpack /\ Len(node.loopvars) # Len(item.l)
            THEN Fail(s1, "TemplateError")
            ELSE ForIterateNext(node, values, i, fi, unpack, acc,
                                RenderLoopBody(node.nodelist_loop, s2, <<>>))

\* the empty branch of ForNode.prototype.render: the callback returns the
\* render e of nodelist_empty, push drops it, and the node's output is the
\* join of what the loop body pushed, which is nothing
ForEmptyExit(e) ==
    IF e.err # "none" THEN e
    ELSE Out([e.st EXCEPT !.dicts = PopFrame(@)], <<>>)

\* ForNode.prototype.render
ForRender(node, st) ==
    LET parentloop == BaseContextGet(st.dicts, TRUE, <<"forloop">>, Undef)
        s1 == [st EXCEPT !.dicts = PushFrame(@, EmptyDict)]
        vr == FilterExpressionResolve(node.sequence, s1, Bool(TRUE))
        values == IF vr.v.k = "null" THEN <<>>
                  ELSE IF vr.v.k = "list" THEN vr.v.l
                  ELSE <<vr.v>>
        vals == IF node.is_reversed THEN Reverse(values) ELSE values
        s2 == IF node.is_reversed
              THEN [s1 EXCEPT !.dicts = ReverseInPlace(@, node.sequence)]
              ELSE s1
        s3 == [s2 EXCEPT !.dicts = ContextSet(@, "forloop",
                  Obj([x \in {"parentloop", "counter0", "counter",
                              "revcounter", "revcounter0", "first", "last"}
                       |-> IF x = "parentloop" THEN parentloop.v ELSE Undef]))]
    IN IF parentloop.err # "none" THEN Fail(st, parentloop.err)
       ELSE IF vr.err # "none" THEN Fail(s1, vr.err)
       ELSE IF Len(values) = 0
       THEN ForEmptyExit(RenderNodeList(node.nodelist_empty, s1, <<>>))
       ELSE PopAfter(ForIterate(node, vals, 1, Len(s3.dicts), s3, <<>>))

\* IfNode.prototype.render from clause i on; m is what the clause's condition
\* evaluated to
RECURSIVE IfClauses(_, _, _)
IfMatch(node, st, i, m) ==
    IF m.err # "none" THEN Fail([st EXCEPT !.evaluated = m.seen], m.err)
    ELSE IF ~Falsy(m.v) /\ m.v.k # "vdne"
    THEN RenderNodeList(node.conditions_nodelists[i][2],
                        [st EXCEPT !.evaluated = m.seen], <<>>)
    ELSE IfClauses(node, [st EXCEPT !.evaluated = m.seen], i + 1)

\* a clause whose condition is null is the else clause
IfClauses(node, st, i) ==
    IF i > Len(node.conditions_nodelists) THEN Out(st, <<>>)
    ELSE IF node.conditions_nodelists[i][1] = Null
    THEN RenderNodeList(node.conditions_nodelists[i][2], st, <<>>)
    ELSE IfMatch(node, st, i,
                 evaluate(node.conditions_nodelists[i][1], st, st.evaluated))

\* cycler(items): index is the closure's cursor
cycler == [k |-> "cycler", index |-> -1]

\* a next() that does not wrap
CyclerNextUnwrapped(c, length) == [c EXCEPT !.index = c.index + 1]

\* next() of a cycler over length items
CyclerNext(c, length) ==
    [c EXCEPT !.index = IF c.index + 1 >= length THEN 0 ELSE c.index + 1]

\* the end of CycleNode.prototype.render: the value is rendered unless silent
CycleExit(node, s2, v) ==
    IF node.silent THEN Out(s2, <<>>) ELSE Out(s2, render_value_in_context(v, s2))

\* the value of the cycle resolved to vr in the state s1 that holds the cycler
CycleResolved(node, s1, vr) ==
    IF vr.err # "none" THEN Fail(s1, vr.err)
    ELSE IF node.variable_name # Null
    THEN CycleExit(node, [s1 EXCEPT !.dicts = ContextSetUpward(@, node.variable_name, vr.v)],
                   vr.v)
    ELSE CycleExit(node, s1, vr.v)

\* the cycler cycle_iter after next(), stored in s1
CycleStored(node, s1, cycle_iter) ==
    IF cycle_iter.index >= Len(node.cyclevars) THEN Fail(s1, "TypeError")
    ELSE CycleResolved(node, s1,
             FilterExpressionResolve(node.cyclevars[cycle_iter.index + 1], s1, Undef))

CycleNext(node, st, cycle_iter) ==
    CycleStored(node,
        [st EXCEPT !.rdicts = [@ EXCEPT ![Len(st.rdicts)] = DictSet(@, node.key, cycle_iter)]],
        cycle_iter)

\* CycleNode.prototype.render: the cycler is kept in the innermost frame of
\* the RenderContext under the node's key
CycleRender(node, st) ==
    CycleNext(node, st,
        CyclerNext(IF RenderContextHas(st.rdicts, node.key)
                   THEN st.rdicts[Len(st.rdicts)][node.key] ELSE cycler,
                   Len(node.cyclevars)))

\* ResetCycleNode.prototype.render: this.node.reset(context)
ResetCycleRender(node, st) ==
    Out([st EXCEPT !.rdicts = [@ EXCEPT ![Len(@)] = DictSet(@, node.node.key, cycler)]],
        <<>>)

\* the variables of {% firstof %} resolved in turn up to the first true one:
\* Null if none is
RECURSIVE FirstTrue(_, _)
FirstTrueNext(variables, st, r) ==
    IF r.err # "none" \/ ~Falsy(r.v) THEN r
    ELSE FirstTrue(Tail(variables), st)

FirstTrue(variables, st) ==
    IF variables = <<>> THEN Ok(Null)
    ELSE FirstTrueNext(variables, st,
             FilterExpressionResolve(Head(variables), st,
                 Obj([x \in {"ignore_failures"} |-> Bool(TRUE)])))

\* the end of FirstOfNode.prototype.render, first being the text found
FirstOfExit(node, st, first) ==
    IF ~Falsy(node.asvar)
    THEN Out([st EXCEPT !.dicts = ContextSet(@, node.asvar.s[1], Str(first))], <<>>)
    ELSE Out(st, first)

\* the loop of FirstOfNode.prototype.render ended with the value r
FirstOfFound(node, st, r) ==
    IF r.err # "none" THEN Fail(st, r.err)
    ELSE IF Falsy(r.v) THEN FirstOfExit(node, st, <<>>)
    ELSE FirstOfExit(node, st, render_value_in_context(r.v, st))

\* FirstOfNode.prototype.render
FirstOfRender(node, st) == FirstOfFound(node, st, FirstTrue(node.vars, st))

\* IfChangedNode.prototype.render once _getContextStackFrame has returned:
\* compare_to is a new array or the SafeString NodeList.prototype.render
\* made, an object that != finds different from whatever is stored
IfChangedCompared(node, st) ==
    RenderNodeList(node.nodelist_true, st, <<>>)

\* IfChangedNode.prototype.render: _getContextStackFrame asks context.has
IfChangedRender(node, st) ==
    IF BaseContextHas(st.dicts, TRUE, "forloop").err # "none"
    THEN Fail(st, BaseContextHas(st.dicts, TRUE, "forloop").err)
    ELSE IfChangedCompared(node, st)

\* Node.prototype.renderAnnotated: the node's render, errors rethrown
NodeRender(node, st) ==
    DepthKept(node.t, st,
        CASE node.t = "Text" -> Out(st, node.s)
          [] node.t = "Variable" -> VariableRender(node, st)
          [] node.t = "Block" -> BlocksKept(node.name, st, BlockRender(node, st))
          [] node.t = "Extends" -> ExtendsRender(node, st)
          [] node.t = "Include" -> IncludeRender(node, st)
          [] node.t = "With" -> WithRender(node, st)
          [] node.t = "For" -> ForRender(node, st)
          [] node.t = "If" -> IfClauses(node, st, 1)
          [] node.t = "Cycle" -> CycleRender(node, st)
          [] node.t = "ResetCycle" -> ResetCycleRender(node, st)
          [] node.t = "FirstOf" -> FirstOfRender(node, st)
          [] node.t = "IfChanged" -> IfChangedRender(node, st))

\* node.render(context), the context taken as it is at the call
RenderNode(node, st) == CHOOSE r \in {NodeRender(node, s) : s \in {st}} : TRUE

----------------------------------------------------------------------------
(* Parser.  A template text is carried as the tokens the Lexer cuts it     *)
(* into, all on line 1: [token_type, contents], the contents being the     *)
(* bits between the spaces (one bit for a TEXT and a VAR token).           *)

\* the tags of defaultTemplateLibrary that the template texts use
Tags == {"if", "block", "extends"}

\* new Parser(tokens, libraries, builtins)
Parser(tokens) == [tokens |-> tokens, commandStack |-> <<>>, loaded_blocks |-> {}]

TemplateSyntaxError(msg, p) == ParseError("TemplateSyntaxError", msg, p)

\* list.join(sep)
RECURSIVE Join(_, _)
Join(list, sep) ==
    IF list = <<>> THEN <<>>
    ELSE IF Len(list) = 1 THEN list[1]
    ELSE list[1] \o <<sep>> \o Join(Tail(list), sep)

\* get_text_list(list): the one-item case reads list_, which is not declared
get_text_list(list) ==
    IF Len(list) = 0 THEN Ok(<<>>)
    ELSE IF Len(list) = 1 THEN Throw("ReferenceError")
    ELSE Ok(Join(SubSeq(list, 1, Len(list) - 1), ", ") \o <<" or ">> \o list[Len(list)])

\* Parser.prototype.invalidBlockTag(token, command, parseUntil): each item of
\* the map is "'" + parseUntil + "'", the whole array joined with commas
invalidBlockTag(p, command, parseUntil) ==
    LET expected == get_text_list([i \in 1..Len(parseUntil) |->
                                      <<"'">> \o Join(parseUntil, ",") \o <<"'">>])
    IN IF parseUntil = <<>>
       THEN TemplateSyntaxError(<<"Invalid block tag on line 1: '", command,
                                  "'. Did you forget to register or load this tag?">>, p)
       ELSE IF expected.err # "none" THEN ParseError(expected.err, <<"list_ is not defined">>, p)
       ELSE TemplateSyntaxError(<<"Invalid block tag on line 1: '", command, "', expected ">>
                                   \o expected.v
                                   \o <<". Did you forget to register or load this tag?">>, p)

\* unclosedBlockTag with the first item of the commandStack, not the last
unclosedBlockTagOutermost(p, parseUntil) ==
    TemplateSyntaxError(<<"Unclosed tag on line 1: '", p.commandStack[1],
                          "'. Looking for one of: ">> \o Join(parseUntil, ", ") \o <<".">>, p)

\* Parser.prototype.unclosedBlockTag(parseUntil): this.commandStack.pop()
unclosedBlockTag(p, parseUntil) ==
    TemplateSyntaxError(<<"Unclosed tag on line 1: '", p.commandStack[Len(p.commandStack)],
                          "'. Looking for one of: ">> \o Join(parseUntil, ", ") \o <<".">>, p)

\* node.must_be_first: ExtendsNode.must_be_first = true sets a property of the
\* constructor, a node reads Node.prototype.must_be_first, which is false
must_be_first(node) == FALSE

\* nodelist.contains_nontext
contains_nontext(nodelist) == \E i \in 1..Len(nodelist) : nodelist[i].t # "Text"

\* nodelist.getNodesByType(ExtendsNode).length !== 0
RECURSIVE HasExtendsNode(_)
HasExtendsNode(nodes) ==
    \E i \in 1..Len(nodes) :
        CASE nodes[i].t = "Extends" -> TRUE
          [] nodes[i].t = "Block" -> HasExtendsNode(nodes[i].nodelist)
          [] nodes[i].t = "If" ->
                \E j \in 1..Len(nodes[i].conditions_nodelists) :
                    HasExtendsNode(nodes[i].conditions_nodelists[j][2])
          [] OTHER -> FALSE

RECURSIVE ParserParse(_, _, _)

\* Parser.prototype.extendNodelist(nodelist, compiled_result, token) and
\* commandStack.pop() after compile_func returned r, then the rest of the loop
Extended(parseUntil, nodelist, r) ==
    IF r.err # "none" THEN r
    ELSE IF must_be_first(r.left) /\ contains_nontext(nodelist)
    THEN TemplateSyntaxError(<<"<ExtendsNode> must be the first tag in the template.">>, r.ps)
    ELSE ParserParse([r.ps EXCEPT !.commandStack = SubSeq(@, 1, Len(@) - 1)],
                     parseUntil, Append(nodelist, r.left))

\* the end of the block tag: r is what parser.parse(['endblock']) returned
BlockTagEnd(block_name, r) ==
    IF r.err # "none" THEN r
    ELSE IF Head(r.ps.tokens).contents
                \notin {<<<<"endblock">>>>, <<<<"endblock">>, <<block_name>>>>}
    THEN invalidBlockTag(r.ps, "endblock",
                         <<<<"endblock">>, <<"endblock ", block_name>>>>)
    ELSE Parsed(BlockNode(block_name, r.left), [r.ps EXCEPT !.tokens = Tail(@)])

\* defaultTemplateLibrary.tag('block', ...)
BlockTag(p, token) ==
    IF Len(token.contents) # 2
    THEN TemplateSyntaxError(<<"'block' tag takes only one argument">>, p)
    ELSE IF token.contents[2][1] \in p.loaded_blocks
    THEN TemplateSyntaxError(<<"'block' tag with name '", token.contents[2][1],
                               "'; appears more than once">>, p)
    ELSE BlockTagEnd(token.contents[2][1],
                     ParserParse([p EXCEPT !.loaded_blocks = @ \cup {token.contents[2][1]}],
                                 <<<<"endblock">>>>, <<>>))

\* the end of the extends tag: r is what parser.parse() returned
ExtendsTagEnd(parent_name, r) ==
    IF r.err # "none" THEN r
    ELSE IF HasExtendsNode(r.left)
    THEN TemplateSyntaxError(<<"'extends' cannot appear more than once in the same template">>,
                             r.ps)
    ELSE Parsed(ExtendsNode(r.left, parent_name), r.ps)

\* defaultTemplateLibrary.tag('extends', ...)
ExtendsTag(p, token) ==
    IF Len(token.contents) # 2
    THEN TemplateSyntaxError(<<"'extends' takes one argument">>, p)
    ELSE ExtendsTagEnd(FilterExpression(token.contents[2]), ParserParse(p, <<>>, <<>>))

RECURSIVE IfTagClause(_, _, _)

\* the if tag at {% endif %}
IfTagEnd(clauses, token, p) ==
    IF token.contents # <<<<"endif">>>>
    THEN TemplateSyntaxError(<<"Malformed template tag at line 1: \"">>
                                 \o Join(token.contents, " ") \o <<"\"">>, p)
    ELSE Parsed(IfNode(clauses), p)

\* the if tag after parser.parse(['endif']) of the else clause returned r
IfTagElse(clauses, r) ==
    IF r.err # "none" THEN r
    ELSE IfTagEnd(Append(clauses, <<Null, r.left>>), Head(r.ps.tokens),
                  [r.ps EXCEPT !.tokens = Tail(@)])

\* the if tag after parser.parse(['elif', 'else', 'endif']) returned r for the
\* clause of condition: the token parse stopped at is taken
IfTagBody(clauses, condition, r) ==
    IF r.err # "none" THEN r
    ELSE IF Head(r.ps.tokens).contents[1] = <<"elif">>
    THEN IfTagClause(Append(clauses, <<condition, r.left>>),
                     IfParserParse(Tail(Head(r.ps.tokens).contents)),
                     [r.ps EXCEPT !.tokens = Tail(@)])
    ELSE IF Head(r.ps.tokens).contents = <<<<"else">>>>
    THEN IfTagElse(Append(clauses, <<condition, r.left>>),
                   ParserParse([r.ps EXCEPT !.tokens = Tail(@)], <<<<"endif">>>>, <<>>))
    ELSE IfTagEnd(Append(clauses, <<condition, r.left>>), Head(r.ps.tokens),
                  [r.ps EXCEPT !.tokens = Tail(@)])

\* defaultTemplateLibrary.tag('if', ...) from an {% if %} or {% elif %} whose
\* condition the TemplateIfParser parsed as c
IfTagClause(clauses, c, p) ==
    IF c.err # "none" THEN ParseError(c.err, c.msg, p)
    ELSE IfTagBody(clauses, c.left,
                   ParserParse(p, <<<<"elif">>, <<"else">>, <<"endif">>>>, <<>>))

\* compile_func(this, token) for a command of this.tags
compile_func(p, token) ==
    CASE token.contents[1] = <<"if">> ->
            IfTagClause(<<>>, IfParserParse(Tail(token.contents)), p)
      [] token.contents[1] = <<"block">> -> BlockTag(p, token)
      [] token.contents[1] = <<"extends">> -> ExtendsTag(p, token)

\* the step of Parser.prototype.parse for a BLOCK token, already taken from
\* the tokens of p
ParseBlockToken(p, token, parseUntil, nodelist) ==
    IF token.contents = <<>>
    THEN TemplateSyntaxError(<<"Empty block tag on line 1">>, p)
    ELSE IF \E i \in 1..Len(parseUntil) : parseUntil[i] = token.contents[1]
    THEN Parsed(nodelist, [p EXCEPT !.tokens = <<token>> \o @])
    ELSE IF token.contents[1][1] \notin Tags
    THEN invalidBlockTag([p EXCEPT !.commandStack = Append(@, token.contents[1][1])],
                         token.contents[1][1], parseUntil)
    ELSE Extended(parseUntil, nodelist,
                  compile_func([p EXCEPT !.commandStack = Append(@, token.contents[1][1])],
                               token))

\* Parser.prototype.parse(parseUntil), nodelist holding the nodes made so far
ParserParse(p, parseUntil, nodelist) ==
    IF p.tokens = <<>>
    THEN IF parseUntil # <<>> THEN unclosedBlockTag(p, parseUntil) ELSE Parsed(nodelist, p)
    ELSE IF Head(p.tokens).token_type = "TEXT"
    THEN ParserParse([p EXCEPT !.tokens = Tail(@)], parseUntil,
                     Append(nodelist, TextNode(Head(p.tokens).contents[1])))
    ELSE IF Head(p.tokens).token_type = "VAR"
    THEN IF Head(p.tokens).contents = <<>>
         THEN TemplateSyntaxError(<<"Empty variable tag on line 1">>, p)
         ELSE ParserParse([p EXCEPT !.tokens = Tail(@)], parseUntil,
                          Append(nodelist,
                                 VariableNode(FilterExpression(Head(p.tokens).contents[1]))))
    ELSE ParseBlockToken([p EXCEPT !.tokens = Tail(@)], Head(p.tokens), parseUntil, nodelist)

\* Template.prototype.compileNodelist for a source cut into tokens
compileNodelist(tokens) == ParserParse(Parser(tokens), <<>>, <<>>)

----------------------------------------------------------------------------
(* The templates, context data and options the calls are made with *)

T(piece) == TextNode(<<piece>>)
V1(a) == VariableNode(FilterExpression(<<a>>))
V2(a, b) == VariableNode(FilterExpression(<<a, ".", b>>))
V3(a, b, c) == VariableNode(FilterExpression(<<a, ".", b, ".", c>>))
Lit(name) == <<"'", name, "'">>

\* name -> source of the templates an engine is constructed with
ChainSources ==
    [n \in {"base", "mid", "leaf"} |->
        CASE n = "base" -> Source(<<T("A "), BlockNode("X", <<T("rx")>>), T(" B "),
                                    BlockNode("Y", <<T("ry")>>), T(" C")>>)
          [] n = "mid" -> Source(<<ExtendsNode(<<T(" "), BlockNode("X", <<T("mx")>>)>>,
                                               FilterExpression(Lit("base")))>>)
          [] n = "leaf" -> Source(<<ExtendsNode(<<BlockNode("X", <<T("lx")>>)>>,
                                                FilterExpression(Lit("mid")))>>)]

SuperSources ==
    [n \in {"base", "child", "grand"} |->
        CASE n = "base" -> Source(<<T("A "), BlockNode("X", <<T("rx")>>), T(" B")>>)
          [] n = "child" -> Source(<<ExtendsNode(
                                <<BlockNode("X", <<T("c1 "), V2("block", "super"), T(" c2")>>)>>,
                                FilterExpression(Lit("base")))>>)
          [] n = "grand" -> Source(<<ExtendsNode(
                                <<BlockNode("X", <<V2("block", "super"), T(" g")>>)>>,
                                FilterExpression(Lit("child")))>>)]

IncludeSources ==
    [n \in {"inc", "empty"} |->
        IF n = "inc" THEN Source(<<T("k="), V1("k"), T(" var="), V1("var")>>)
        ELSE Str(<<>>)]

SourceMaps == {Undef, Obj(ChainSources), Obj(SuperSources), Obj(IncludeSources)}

TemplateNames ==
    {"base", "mid", "leaf", "child", "grand", "inc", "nope", "empty", "constructor"}

ForEmpty(seq) ==
    ForNode(<<"x">>, FilterExpression(seq), FALSE,
            <<T("B"), V1("x")>>, <<T("E")>>)

\* {% for x in seq %}body{% endfor %}
ForLoop(seq, body) == ForNode(<<"x">>, FilterExpression(<<seq>>), FALSE, body, <<>>)

\* the fields of forloop printed one after the other
ForloopFields ==
    <<V2("forloop", "counter"), V2("forloop", "counter0"), V2("forloop", "revcounter"),
      V2("forloop", "revcounter0"), V2("forloop", "first"), V2("forloop", "last"), T(";")>>

\* the values of the cycle tag of CycleLoop
CycleValues == <<"a", "b">>

\* {% for x in seq %}{% cycle 'a' 'b' %}{% if x %}{% resetcycle %}{% endif %}{% endfor %}
CycleLoop ==
    LET node == CycleNode("cycle#1",
                          [i \in 1..Len(CycleValues) |-> FilterExpression(Lit(CycleValues[i]))],
                          Null, FALSE)
    IN <<ForLoop("seq", <<node,
                          IfNode(<<<<IfParserParse(<<<<"x">>>>).left,
                                     <<ResetCycleNode(node)>>>>>>)>>)>>

\* {% for x in seq %}[{% block X %}r{% endblock %}{% block Y %}y{% endblock %}]{% endfor %}
BlockLoopBase ==
    Source(<<ForLoop("seq", <<T("["), BlockNode("X", <<T("r")>>),
                              BlockNode("Y", <<T("y")>>), T("]")>>)>>)

\* {% extends 'loopbase' %}{% block X %}c{% endblock %}
BlockLoopChild ==
    Source(<<ExtendsNode(<<BlockNode("X", <<T("c")>>)>>,
                         FilterExpression(Lit("loopbase")))>>)

\* id -> source of the template texts given to the calls that take a text
Codes ==
    [c \in {"v", "missing", "a.b", "a.b.c", "None.x", "for_seq", "for_missing",
            "for_none", "for_pairs", "for_rev", "with_ok", "with_err", "incl", "incl_with",
            "incl_only", "for_loop", "for_nested", "cycle", "cycle_twice",
            "ifchanged", "ifchanged_var", "block_loop", "block_loop2", "block_alone",
            "firstof_as", "name", "incl2"} |->
        CASE c = "v" -> Source(<<V1("v")>>)
          [] c = "block_loop" -> BlockLoopChild
          [] c = "block_loop2" ->
                Source(<<ExtendsNode(<<BlockNode("X", <<T("d")>>)>>,
                                     FilterExpression(Lit("loopchild")))>>)
          [] c = "block_alone" -> BlockLoopBase
          [] c = "firstof_as" ->
                Source(<<FirstOfNode(<<FilterExpression(<<"v">>),
                                       FilterExpression(Lit("fallback"))>>,
                                     Str(<<"name">>))>>)
          [] c = "name" -> Source(<<V1("name")>>)
          [] c = "incl2" -> Source(<<T("["), IncludeTag(Lit("inc2"), EmptyDict, FALSE), T("]")>>)
          [] c = "for_loop" -> Source(<<ForLoop("seq", ForloopFields)>>)
          [] c = "cycle" -> Source(CycleLoop)
          [] c = "ifchanged" ->
                Source(<<ForLoop("seq", <<IfChangedNode("<IfChangedNode #1>",
                                              <<V1("x")>>, <<T("=")>>, <<>>)>>)>>)
          [] c = "ifchanged_var" ->
                Source(<<ForLoop("seq", <<IfChangedNode("<IfChangedNode #2>",
                                              <<T("c")>>, <<T("=")>>,
                                              <<FilterExpression(<<"x">>)>>)>>)>>)
          [] c = "cycle_twice" ->
                Source(<<IncludeTag(Lit("cyc"), EmptyDict, FALSE), T("|"),
                         IncludeTag(Lit("cyc"), EmptyDict, FALSE)>>)
          [] c = "for_nested" ->
                Source(<<ForLoop("seq",
                           <<ForLoop("inner",
                               <<V3("forloop", "parentloop", "counter"),
                                 V3("forloop", "parentloop", "revcounter0"),
                                 V3("forloop", "parentloop", "first"),
                                 V2("forloop", "counter"),
                                 V2("forloop", "revcounter0"), T(";")>>)>>)>>)
          [] c = "missing" -> Source(<<V1("missing")>>)
          [] c = "a.b" -> Source(<<V2("a", "b")>>)
          [] c = "a.b.c" -> Source(<<V3("a", "b", "c")>>)
          [] c = "None.x" -> Source(<<V2("None", "x")>>)
          [] c = "for_seq" -> Source(<<T("<"), ForEmpty(<<"seq">>), T(">")>>)
          [] c = "for_missing" -> Source(<<T("<"), ForEmpty(<<"missing">>), T(">")>>)
          [] c = "for_none" -> Source(<<T("<"), ForEmpty(<<"None">>), T(">")>>)
          [] c = "for_pairs" -> Source(<<ForNode(<<"p", "q">>, FilterExpression(<<"seq">>),
                                                TRUE, <<V1("p"), T("-"), V1("q"), T(";")>>, <<>>)>>)
          [] c = "for_rev" -> Source(<<ForNode(<<"x">>, FilterExpression(<<"seq">>), TRUE,
                                              <<V1("x"), T(";")>>, <<>>)>>)
          [] c = "with_ok" -> Source(<<WithNode(<<T("n="), V1("n")>>,
                                         [x \in {"n"} |-> FilterExpression(<<"v">>)])>>)
          [] c = "with_err" -> Source(<<WithNode(
                                   <<T("n="), V1("n"),
                                     ForNode(<<"p", "q">>, FilterExpression(<<"seq">>), FALSE,
                                             <<V1("p")>>, <<>>)>>,
                                   [x \in {"n"} |-> FilterExpression(<<"v">>)])>>)
          [] c = "incl" -> Source(<<T("["), IncludeTag(Lit("inc"), EmptyDict, FALSE), T("]")>>)
          [] c = "incl_with" -> Source(<<T("["),
                                   IncludeTag(Lit("inc"),
                                              [x \in {"k"} |-> FilterExpression(<<"v">>)], FALSE),
                                   T("]")>>)
          [] c = "incl_only" -> Source(<<T("["),
                                   IncludeTag(Lit("inc"),
                                              [x \in {"k"} |-> FilterExpression(<<"v">>)], TRUE),
                                   T("]")>>)]

Metachars == <<"<", "b", ">", "&", "'", "\"">>

DataA ==
    Obj([x \in {"v", "a", "seq", "var", "k"} |->
        CASE x = "v" -> Str(Metachars)
          [] x = "a" -> Obj([y \in {"b"} |-> Obj([z \in {"c"} |-> Str(<<"val">>)])])
          [] x = "seq" -> List(<<>>)
          [] x = "var" -> Str(<<"outer">>)
          [] x = "k" -> Str(<<"outerk">>)])

DataB ==
    Obj([x \in {"v", "a", "seq"} |->
        CASE x = "v" -> Str(<<"plain">>)
          [] x = "a" -> Obj([y \in {"b"} |-> Obj(EmptyDict)])
          [] x = "seq" -> List(<<Num(1), Num(2)>>)])

DataC ==
    Obj([x \in {"v", "a", "seq"} |->
        CASE x = "v" -> Num(4)
          [] x = "a" -> Obj(EmptyDict)
          [] x = "seq" -> List(<<List(<<Num(1), Num(2)>>), List(<<Num(3), Num(4)>>)>>)])

Datas == {Undef, DataA, DataB, DataC}

InvalidText == <<"INVALID ", "%s">>

OptInvalid == Obj([x \in {"string_if_invalid"} |-> Str(InvalidText)])
OptNoEscape == Obj([x \in {"autoescape"} |-> Bool(FALSE)])

OptionSets == {Undef, OptInvalid, OptNoEscape}

\* DJANGO_TEMPLATE_SETTINGS.CONTEXT_BUILTINS
CONTEXT_BUILTINS ==
    [x \in {"True", "False", "None"} |->
        CASE x = "True" -> Bool(TRUE) [] x = "False" -> Bool(FALSE) [] x = "None" -> Null]

----------------------------------------------------------------------------
(* The entry points *)

\* t.render(context) for a Context c, from outside any render
RenderCall(eng, t, c) == TemplateRender(t, StateOf(c, eng, Undef))

\* TemplateEngine.prototype.renderTemplateString(templateCode, context)
renderTemplateString(eng, templateCode, context, blt) ==
    RenderCall(eng, Template(templateCode, ""), NewContext(context, blt))

\* TemplateEngine.prototype.renderToString(template_name, context)
renderToString(eng, template_name, context, blt) ==
    LET g == getTemplate(eng, template_name)
    IN IF g.err # "none"
       THEN Fail(StateOf(NewContext(context, blt), eng, Undef), g.err)
       ELSE IF g.t.k # "Template"
       THEN Fail(StateOf(NewContext(context, blt), eng, Undef), "TypeError")
       ELSE RenderCall(g.eng, g.t, NewContext(context, blt))

\* TemplateEngine.renderTemplate = function(templateCode, context, options,
\*                                          otherTemplateSources)
renderTemplate(templateCode, context, options, otherTemplateSources, blt) ==
    renderTemplateString(TemplateEngine(otherTemplateSources, options),
                         templateCode, context, blt)

\* the record of a call: its name, its arguments, the frames of the caller's
\* Context (for getTemplate, the engine's cache) before it (pre), the error it
\* threw and its message (msg), the text it returned (out) or the object it
\* returned (ret), what its renders that returned left changed (log)
Call(op, tpl, data, a3, a4, pre) ==
    [op |-> op, tpl |-> tpl, data |-> data, a3 |-> a3, a4 |-> a4,
     err |-> "none", msg |-> <<>>, out |-> <<>>, ret |-> Undef, pre |-> pre, log |-> {}]

\* a render returns r: the text or the error is recorded, the built-ins object
\* is the one every Context shares
Returned(call, r) ==
    /\ last' = [call EXCEPT !.err = r.err, !.out = r.out, !.log = r.st.log]
    /\ builtins' = r.st.dicts[1]

Init ==
    /\ engine = TemplateEngine(Undef, Undef)
    /\ builtins = CONTEXT_BUILTINS
    /\ ctx = NewContext(Undef, CONTEXT_BUILTINS)
    /\ last = Call("init", "", Undef, Undef, Undef, <<>>)

\* engine = new DjangoTemplateEngine(templateSources, options)
Construct(templateSources, options) ==
    /\ engine' = TemplateEngine(templateSources, options)
    /\ last' = Call("new", "", Undef, templateSources, options, <<>>)
    /\ UNCHANGED <<builtins, ctx>>

\* DjangoTemplateEngine.renderTemplate(templateCode, context, otherTemplateSources,
\* templateEngineOptions), the call of the README and of the tests
RenderTemplateStatic(code, context, otherTemplateSources, templateEngineOptions) ==
    /\ Returned(Call("renderTemplate", code, context, otherTemplateSources,
                     templateEngineOptions, <<>>),
                renderTemplate(Codes[code], context, otherTemplateSources,
                               templateEngineOptions, builtins))
    /\ UNCHANGED <<engine, ctx>>

\* the engine after a render of its own: the templates it loaded are cached
ReturnedToEngine(call, r) ==
    /\ Returned(call, r)
    /\ engine' = r.st.engine

\* engine.renderToString(name, context)
RenderToString(name, context) ==
    /\ ReturnedToEngine(Call("renderToString", name, context, Undef, Undef, <<>>),
                        renderToString(engine, Str(<<name>>), context, builtins))
    /\ UNCHANGED ctx

\* engine.renderTemplateString(templateCode, context)
RenderTemplateString(code, context) ==
    /\ ReturnedToEngine(Call("renderTemplateString", code, context, Undef, Undef, <<>>),
                        renderTemplateString(engine, Codes[code], context, builtins))
    /\ UNCHANGED ctx

\* engine.getTemplate(name)
GetTemplate(name) ==
    LET g == getTemplate(engine, Str(<<name>>))
    IN /\ last' = [Call("getTemplate", name, Undef, Undef, Undef, <<engine.templates>>)
                        EXCEPT !.err = g.err, !.ret = g.t]
       /\ engine' = g.eng
       /\ UNCHANGED <<builtins, ctx>>

\* the frames a caller's Context may hold when a render is started on it
MaxFrames == 3

\* ctx = new DjangoTemplateEngine.Context(dict)
CreateContext(dict) ==
    /\ ctx' = NewContext(dict, builtins)
    /\ last' = Call("Context", "", dict, Undef, Undef, <<>>)
    /\ UNCHANGED <<engine, builtins>>

\* the caller's Context after a render with it
ReturnedToContext(call, r) ==
    /\ ReturnedToEngine(call, r)
    /\ ctx' = ContextOf(r.st)

\* engine.getTemplateFromString(templateCode).render(ctx), with the caller's Context
RenderWithContext(code) ==
    /\ Len(ctx.dicts) < MaxFrames
    /\ ReturnedToContext(Call("render", code, Undef, Undef, Undef, ctx.dicts),
                         RenderCall(engine, Template(Codes[code], ""), ctx))

\* the (templateSources, options) pairs engines are constructed with
EngineConfigs ==
    {<<Undef, Undef>>, <<Undef, OptInvalid>>, <<Undef, OptNoEscape>>,
     <<Obj(ChainSources), Undef>>, <<Obj(SuperSources), Undef>>,
     <<Obj(IncludeSources), Undef>>}
StaticCodes == {"missing", "incl"}
StaticDatas == {Undef, DataA}
StaticSources == {Null, Obj(IncludeSources)}
StaticOptions == {Undef, OptInvalid}
NamedDatas == {Undef, DataA}
ContextDatas == {Undef, DataB}
ContextCodes == {"with_ok", "with_err", "for_rev"}
BaseCodes ==
    {"v", "missing", "a.b", "a.b.c", "None.x", "for_seq", "for_missing", "for_none",
     "for_pairs", "for_rev", "with_ok", "with_err", "incl", "incl_with", "incl_only"}

Next ==
    \/ \E e \in EngineConfigs : Construct(e[1], e[2])
    \/ \E c \in StaticCodes, d \in StaticDatas, s \in StaticSources, o \in StaticOptions :
          RenderTemplateStatic(c, d, s, o)
    \/ \E n \in TemplateNames, d \in NamedDatas : RenderToString(n, d)
    \/ \E c \in BaseCodes, d \in Datas : RenderTemplateString(c, d)
    \/ \E n \in TemplateNames : GetTemplate(n)
    \/ \E d \in ContextDatas : CreateContext(d)
    \/ \E c \in ContextCodes : RenderWithContext(c)

Spec == Init /\ [][Next]_vars

----------------------------------------------------------------------------
(* The operations of a Context, called by the owner of the Context.  The   *)
(* first frame of a new Context is the object CONTEXT_BUILTINS itself, so  *)
(* what is written to it is written to builtins.                           *)

\* the result of an operation on the frames: the error thrown and the frames
Frames(err, dicts) == [err |-> err, dicts |-> dicts]

\* BaseContext.prototype.pop: Array.prototype.pop of an empty array returns
\* undefined and leaves it empty
BaseContextPop(dicts) ==
    IF Len(dicts) = 1 THEN Frames("ContextPopException", dicts)
    ELSE Frames("none", PopFrame(dicts))

\* the callbacks given to push: none (undefined), one that does nothing, one
\* that calls pop on the context it is given
PushCallbacks == {Undef, Fn("noop"), Fn("pop")}

\* f(this) for a callback f
CallbackRun(f, dicts) ==
    IF f.f = "pop" THEN BaseContextPop(dicts) ELSE Frames("none", dicts)

\* what follows f(this) in push: this.dicts.pop(), unless f threw
CallbackReturned(r) ==
    IF r.err # "none" THEN r ELSE Frames("none", PopFrame(r.dicts))

\* BaseContext.prototype.push(dict, f)
BaseContextPush(dicts, dict, f) ==
    IF Falsy(f)
    THEN Frames("none", PushFrame(dicts, IF Falsy(dict) THEN EmptyDict ELSE copyDict(dict.o)))
    ELSE CallbackReturned(CallbackRun(f,
             PushFrame(dicts, IF Falsy(dict) THEN EmptyDict ELSE copyDict(dict.o))))

\* Context.prototype.update(otherDict) for a plain object
ContextUpdate(dicts, otherDict) == Frames("none", PushFrame(dicts, copyDict(otherDict.o)))

\* BaseContext.prototype.set(key, value) called from outside: with no frame
\* left this.dicts[-1] is undefined
BaseContextSet(dicts, key, value) ==
    IF dicts = <<>> THEN Frames("TypeError", dicts)
    ELSE Frames("none", ContextSet(dicts, key, value))

\* BaseContext.prototype.setUpward(key, value) called from outside
BaseContextSetUpward(dicts, key, value) ==
    IF dicts = <<>> THEN Frames("TypeError", dicts)
    ELSE Frames("none", ContextSetUpward(dicts, key, value))

\* BaseContext.prototype.delete(key)
BaseContextDelete(dicts, key) ==
    IF dicts = <<>> THEN Frames("TypeError", dicts)
    ELSE Frames("none", [dicts EXCEPT ![Len(dicts)] =
                            [k \in DOMAIN @ \ {key} |-> @[k]]])

\* the depth up to which push and update are called
MaxDepth == 3

\* the operation returned r: the frames are the Context's, and the first
\* frame, when it is the built-ins object, is what every Context shares
Operated(call, r) ==
    /\ last' = [call EXCEPT !.err = r.err]
    /\ ctx' = [ctx EXCEPT !.dicts = r.dicts]
    /\ builtins' = IF ctx.dicts # <<>> /\ ctx.dicts[1] = builtins /\ r.dicts # <<>>
                   THEN r.dicts[1] ELSE builtins
    /\ UNCHANGED engine

\* ctx.push(dict, f)
Push(dict, f) ==
    /\ Len(ctx.dicts) < MaxDepth
    /\ Operated(Call("push", "", dict, f, Undef, ctx.dicts),
                BaseContextPush(ctx.dicts, dict, f))

\* ctx.pop()
Pop ==
    Operated(Call("pop", "", Undef, Undef, Undef, ctx.dicts), BaseContextPop(ctx.dicts))

\* ctx.update(otherDict)
Update(otherDict) ==
    /\ Len(ctx.dicts) < MaxDepth
    /\ Operated(Call("update", "", otherDict, Undef, Undef, ctx.dicts),
                ContextUpdate(ctx.dicts, otherDict))

\* ctx.set(key, value)
SetKey(key, value) ==
    Operated(Call("set", key, value, Undef, Undef, ctx.dicts),
             BaseContextSet(ctx.dicts, key, value))

\* ctx.setUpward(key, value)
SetUpwardKey(key, value) ==
    Operated(Call("setUpward", key, value, Undef, Undef, ctx.dicts),
             BaseContextSetUpward(ctx.dicts, key, value))

\* ctx.delete(key)
DeleteKey(key) ==
    Operated(Call("delete", key, Undef, Undef, Undef, ctx.dicts),
             BaseContextDelete(ctx.dicts, key))

\* the dicts, keys and values the operations are called with
PushedDicts == {Undef, Obj([x \in {"a"} |-> Num(1)])}
UpdateDicts == {Obj(EmptyDict), Obj([x \in {"a"} |-> Num(2)])}
ContextKeys == {"a", "b"}
ContextValues == {Num(1), Num(2)}

\* ctx = new Context(): the frames are [CONTEXT_BUILTINS]
InitContext ==
    /\ engine = TemplateEngine(Undef, Undef)
    /\ builtins = CONTEXT_BUILTINS
    /\ ctx = NewContext(Undef, CONTEXT_BUILTINS)
    /\ last = Call("Context", "", Undef, Undef, Undef, <<>>)

NextContext ==
    \/ \E d \in PushedDicts, f \in PushCallbacks : Push(d, f)
    \/ Pop
    \/ \E d \in UpdateDicts : Update(d)
    \/ \E k \in ContextKeys, v \in ContextValues : SetKey(k, v)
    \/ \E k \in ContextKeys, v \in ContextValues : SetUpwardKey(k, v)
    \/ \E k \in ContextKeys : DeleteKey(k)

SpecContext == InitContext /\ [][NextContext]_vars

----------------------------------------------------------------------------
(* Rendering the tags: an engine that holds the templates the tags load,   *)
(* the calls made with the (template, context data) pairs below.           *)

MaxItems == 3

\* the arrays of 0 and 1 of at most MaxItems items
BitSeqs == UNION {[1..n -> {Num(0), Num(1)}] : n \in 1..MaxItems}

InnerSeqs == {<<Num(0)>>, <<Num(0), Num(1)>>}

TagData(seq, inner) ==
    Obj([x \in {"seq", "inner"} |-> IF x = "seq" THEN List(seq) ELSE List(inner)])

\* the (template id, context data) pairs of the calls
TagInputs ==
    {<<"for_loop", TagData(s, <<>>)>> : s \in BitSeqs}
        \cup {<<"for_nested", TagData(s, i)>> : s \in BitSeqs, i \in InnerSeqs}
        \cup {<<c, TagData(s, <<>>)>> : c \in {"cycle", "cycle_twice"}, s \in BitSeqs}
        \cup {<<c, TagData(s, <<>>)>> : c \in {"ifchanged", "ifchanged_var"}, s \in BitSeqs}

\* name -> source of the templates of the engine
TagSources ==
    [n \in {"inc", "inc2", "cyc", "loopbase", "loopchild"} |->
        CASE n = "inc" -> IncludeSources["inc"]
          [] n = "inc2" -> Source(<<T("("), IncludeTag(Lit("inc"), EmptyDict, FALSE), T(")")>>)
          [] n = "loopbase" -> BlockLoopBase
          [] n = "loopchild" -> BlockLoopChild
          [] n = "cyc" -> Source(CycleLoop)]

InitTags ==
    /\ engine = TemplateEngine(Obj(TagSources), Undef)
    /\ builtins = CONTEXT_BUILTINS
    /\ ctx = NewContext(Undef, CONTEXT_BUILTINS)
    /\ last = Call("new", "", Undef, Obj(TagSources), Undef, <<>>)

\* the filters of the chains and the context data they are applied to
FilterNames == {"noop", "lower", "upper", "capfirst", "safe"}

FilterDatas ==
    {Obj([x \in {"v"} |-> v]) :
        v \in {Str(<<"a", "B">>), Str(<<"<", "A", "b">>), Num(4)}}

\* the source of {{ v|f|g }}
FilterCode(f, g) == Source(<<VariableNode(FilterChain(<<"v">>, <<f, g>>))>>)

\* engine.renderTemplateString("{{ v|f|g }}", context)
RenderFilterChain(f, g, context) ==
    /\ ReturnedToEngine(Call("renderTemplateString", "v|f|g", context,
                             List(<<Str(<<f>>), Str(<<g>>)>>), Undef, <<>>),
                        renderTemplateString(engine, FilterCode(f, g), context, builtins))
    /\ UNCHANGED ctx

NextTags ==
    \/ \E in \in TagInputs : RenderTemplateString(in[1], in[2])
    \/ \E f \in FilterNames, g \in FilterNames, d \in FilterDatas :
          RenderFilterChain(f, g, d)

SpecTags == InitTags /\ [][NextTags]_vars

----------------------------------------------------------------------------
(* Rendering the tags that push frames and templates: for (with and without *)
(* unpacking), with, include, block, extends, and {% firstof ... as name %}. *)

FrameCodes ==
    {"for_seq", "for_pairs", "for_rev", "with_ok", "incl", "incl2", "incl_with", "incl_only"}

BlockCodes == {"block_loop", "block_loop2", "block_alone"}

\* the arrays of at most MaxItems zeros
ZeroSeqs == {[i \in 1..n |-> Num(0)] : n \in 1..MaxItems}

\* the (template id, context data) pairs of the calls
FrameInputs ==
    {<<c, TagData(s, <<>>)>> : c \in BlockCodes, s \in ZeroSeqs}
        \cup {<<c, d>> : c \in FrameCodes, d \in {DataA, DataB, DataC}}
        \cup {<<c, d>> : c \in {"firstof_as", "name"}, d \in {Undef, DataB}}

\* the templates rendered with the caller's Context
ContextFrameCodes == {"v", "incl", "incl2"}

NextFrames ==
    \/ \E in \in FrameInputs : RenderTemplateString(in[1], in[2])
    \/ \E c \in ContextFrameCodes : RenderWithContext(c)

SpecFrames == InitTags /\ [][NextFrames]_vars

----------------------------------------------------------------------------
(* Compiling and rendering template texts: the texts are drawn at the      *)
(* start, a call compiles or renders the text drawn.                       *)

Tok(token_type, contents) == [token_type |-> token_type, contents |-> contents]

MaxTokens == 3
MaxBits == 3

\* the tokens of the texts that exercise the tags
StructTokens ==
    {Tok("TEXT", <<<<"t">>>>), Tok("VAR", <<<<"v">>>>),
     Tok("BLOCK", <<<<"if">>, <<"a">>>>), Tok("BLOCK", <<<<"else">>>>),
     Tok("BLOCK", <<<<"endif">>>>),
     Tok("BLOCK", <<<<"block">>, <<"b">>>>), Tok("BLOCK", <<<<"endblock">>>>),
     Tok("BLOCK", <<<<"extends">>, Lit("base")>>),
     Tok("BLOCK", <<<<"bogus">>>>)}

StructTexts == UNION {[1..n -> StructTokens] : n \in 1..MaxTokens}

\* the bits of the conditions
IfBits ==
    {<<"a">>, <<"b">>, <<"and">>, <<"or">>, <<"not">>, <<"==">>, <<"in">>, <<"is">>,
     <<"None", ".", "x">>}

BinaryBits == {<<"or">>, <<"and">>, <<"==">>, <<"!=">>, <<"in">>}

ShortConds == UNION {[1..n -> IfBits] : n \in 1..MaxBits}

\* a o1 b o2 c and not a o b
LongConds ==
    {<<<<"a">>, o1, <<"b">>, o2, <<"c">>>> : o1 \in BinaryBits, o2 \in BinaryBits}
        \cup {<<<<"not">>, <<"a">>, o, <<"b">>>> : o \in BinaryBits}

\* {% if cond %}T{% else %}F{% endif %}
IfText(cond) ==
    <<Tok("BLOCK", <<<<"if">>>> \o cond), Tok("TEXT", <<<<"T">>>>),
      Tok("BLOCK", <<<<"else">>>>), Tok("TEXT", <<<<"F">>>>),
      Tok("BLOCK", <<<<"endif">>>>)>>

\* the context data of the conditions: a, b and c are 0 or 1, or b is a list
IfData(a, b, c) ==
    Obj([x \in {"a", "b", "c"} |-> IF x = "a" THEN a ELSE IF x = "b" THEN b ELSE c])

ShortDatas ==
    {IfData(Num(a), Num(b), Num(0)) : a \in 0..1, b \in 0..1}
        \cup {IfData(Num(1), List(<<Num(1), Num(2)>>), Num(0))}

LongDatas == {IfData(Num(a), Num(b), Num(c)) : a \in 0..1, b \in 0..1, c \in 0..1}

\* the (text, context data) pairs drawn
TextInputs ==
    {<<t, Undef>> : t \in StructTexts}
        \cup {<<IfText(c), d>> : c \in ShortConds, d \in ShortDatas}
        \cup {<<IfText(c), d>> : c \in LongConds, d \in LongDatas}

InitCompile ==
    /\ engine = TemplateEngine(Undef, Undef)
    /\ builtins = CONTEXT_BUILTINS
    /\ ctx = NewContext(Undef, CONTEXT_BUILTINS)
    /\ \E in \in TextInputs : last = Call("text", in[1], in[2], Undef, Undef, <<>>)

\* new Template(...) returned the template or threw: c is what compileNodelist gave
TemplateReturned(call, c) ==
    /\ last' = [call EXCEPT !.err = c.err, !.msg = c.msg,
                            !.ret = IF c.err = "none" THEN Template(Source(c.left), "")
                                    ELSE Undef]
    /\ UNCHANGED <<engine, builtins, ctx>>

\* engine.getTemplateFromString(templateCode)
GetTemplateFromString ==
    /\ last.op = "text"
    /\ TemplateReturned(Call("getTemplateFromString", last.tpl, Undef, Undef, Undef, <<>>),
                        compileNodelist(last.tpl))

\* t.render(new Context(context)) returned r; ret holds the operands evaluated
TextRendered(call, r) ==
    /\ last' = [call EXCEPT !.err = r.err, !.out = r.out, !.ret = r.st.evaluated]
    /\ UNCHANGED <<engine, builtins, ctx>>

\* the render of renderTemplateString once getTemplateFromString gave c
RenderCompiled(call, c) ==
    IF c.err # "none" THEN TemplateReturned(call, c)
    ELSE TextRendered(call, RenderCall(engine, Template(Source(c.left), ""),
                                       NewContext(call.data, builtins)))

\* engine.renderTemplateString(templateCode, context) for a text given as tokens
RenderTemplateText ==
    /\ last.op = "text"
    /\ RenderCompiled(Call("renderTemplateText", last.tpl, last.data, Undef, Undef, <<>>),
                      compileNodelist(last.tpl))

NextCompile == GetTemplateFromString \/ RenderTemplateText

SpecCompile == InitCompile /\ [][NextCompile]_vars

-----------------------------------------------------------------------------
(* Lexer.  Here a template string is a sequence of pieces: a tag delimiter, *)
(* a space, or a word (a maximal run of other characters, without a line   *)
(* break).                                                                 *)

BLOCK_TAG_START == "{%"
VARIABLE_TAG_START == "{{"
COMMENT_TAG_START == "{#"

\* BLOCK_TAG_END, VARIABLE_TAG_END, COMMENT_TAG_END by their start
TagEnd == [d \in {BLOCK_TAG_START, VARIABLE_TAG_START, COMMENT_TAG_START} |->
              CASE d = BLOCK_TAG_START -> "%}"
                [] d = VARIABLE_TAG_START -> "}}"
                [] OTHER -> "#}"]

\* tag_re at index i of s: the index of the last piece of the match, 0 for none
tag_re(s, i) ==
    IF s[i] \in DOMAIN TagEnd /\ \E j \in (i + 1)..Len(s) : s[j] = TagEnd[s[i]]
    THEN CHOOSE j \in (i + 1)..Len(s) :
             /\ s[j] = TagEnd[s[i]]
             /\ \A h \in (i + 1)..(j - 1) : s[h] # TagEnd[s[i]]
    ELSE 0

\* templateString.split(tag_re) from index i, text being the pieces passed
\* since the last match: texts and tags alternate, a text may be empty
RECURSIVE split(_, _, _)
split(s, i, text) ==
    IF i > Len(s) THEN <<text>>
    ELSE IF tag_re(s, i) > 0
    THEN <<text, SubSeq(s, i, tag_re(s, i))>> \o split(s, tag_re(s, i) + 1, <<>>)
    ELSE split(s, i + 1, Append(text, s[i]))

\* String.prototype.trim
RECURSIVE trim(_)
trim(s) ==
    IF s = <<>> THEN s
    ELSE IF Head(s) = " " THEN trim(Tail(s))
    ELSE IF s[Len(s)] = " " THEN trim(SubSeq(s, 1, Len(s) - 1))
    ELSE s

\* new Token(token_type, contents, position, lineno), every one on line 1
Token(token_type, contents) ==
    [k |-> "Token", token_type |-> token_type, contents |-> contents]

\* new Lexer(templateString)
Lexer(templateString) == [templateString |-> templateString, verbatim |-> Bool(FALSE)]

\* ["verbatim", "verbatim "].indexOf(content.substring(0,9)) !== -1
StartsVerbatim(content) ==
    \/ content = <<"verbatim">>
    \/ Len(content) >= 2 /\ content[1] = "verbatim" /\ content[2] = " "

\* "end" + content, for a content that starts with the word verbatim
EndOf(content) == <<"endverbatim">> \o Tail(content)

\* createToken with a verbatim block that ends at any endverbatim tag
createTokenAnyEnd(lexer, token_string, in_tag) ==
    LET content == trim(SubSeq(token_string, 2, Len(token_string) - 1)) IN
    IF in_tag /\ token_string[1] = BLOCK_TAG_START
    THEN IF ~Falsy(lexer.verbatim)
         THEN IF content = <<>> \/ content[1] # "endverbatim"
              THEN [lexer |-> lexer, token |-> Token("TEXT", token_string)]
              ELSE [lexer |-> [lexer EXCEPT !.verbatim = Bool(FALSE)],
                    token |-> Token("BLOCK", content)]
         ELSE IF StartsVerbatim(content)
         THEN [lexer |-> [lexer EXCEPT !.verbatim = Str(EndOf(content))],
               token |-> Token("BLOCK", content)]
         ELSE [lexer |-> lexer, token |-> Token("BLOCK", content)]
    ELSE IF in_tag /\ Falsy(lexer.verbatim)
    THEN IF token_string[1] = VARIABLE_TAG_START
         THEN [lexer |-> lexer, token |-> Token("VAR", content)]
         ELSE [lexer |-> lexer, token |-> Token("COMMENT", content)]
    ELSE [lexer |-> lexer, token |-> Token("TEXT", token_string)]

\* Lexer.prototype.createToken(token_string, position, lineno, in_tag): the
\* lexer after the call and the token returned.  A tag that tag_re matched
\* starts with one of the three delimiters, so the TemplateError is not thrown.
createToken(lexer, token_string, in_tag) ==
    LET content == trim(SubSeq(token_string, 2, Len(token_string) - 1)) IN
    IF in_tag /\ token_string[1] = BLOCK_TAG_START
    THEN IF ~Falsy(lexer.verbatim)
         THEN IF Str(content) # lexer.verbatim
              THEN [lexer |-> lexer, token |-> Token("TEXT", token_string)]
              ELSE [lexer |-> [lexer EXCEPT !.verbatim = Bool(FALSE)],
                    token |-> Token("BLOCK", content)]
         ELSE IF StartsVerbatim(content)
         THEN [lexer |-> [lexer EXCEPT !.verbatim = Str(EndOf(content))],
               token |-> Token("BLOCK", content)]
         ELSE [lexer |-> lexer, token |-> Token("BLOCK", content)]
    ELSE IF in_tag /\ Falsy(lexer.verbatim)
    THEN IF token_string[1] = VARIABLE_TAG_START
         THEN [lexer |-> lexer, token |-> Token("VAR", content)]
         ELSE [lexer |-> lexer, token |-> Token("COMMENT", content)]
    ELSE [lexer |-> lexer, token |-> Token("TEXT", token_string)]

\* the forEach of tokenize from bit i on
RECURSIVE tokenizeBits(_, _, _, _, _)
tokenizeBits(lexer, bits, i, in_tag, result) ==
    IF i > Len(bits) THEN result
    ELSE IF bits[i] # <<>>
    THEN tokenizeBits(createToken(lexer, bits[i], in_tag).lexer, bits, i + 1, ~in_tag,
                      Append(result, createToken(lexer, bits[i], in_tag).token))
    ELSE tokenizeBits(lexer, bits, i + 1, ~in_tag, result)

\* Lexer.prototype.tokenize
tokenize(lexer) == tokenizeBits(lexer, split(lexer.templateString, 1, <<>>), 1, FALSE, <<>>)

\* the template strings: up to MaxChunks of the texts and tags below, joined
MaxChunks == 4

Chunks ==
    {<<"t">>,
     <<"{{", " ", "v", " ", "}}">>,
     <<"{#", " ", "c", " ", "#}">>,
     <<"{%", " ", "if", " ", "v", " ", "%}">>,
     <<"{%", " ", "verbatim", " ", "%}">>,
     <<"{%", "endverbatim", "%}">>,
     <<"{%", " ", "verbatim", " ", "x", " ", "%}">>,
     <<"{%", " ", "endverbatim", " ", "x", " ", "%}">>,
     <<"{%", " ", "verbatimx", " ", "%}">>}

RECURSIVE Joined(_)
Joined(chunks) == IF chunks = <<>> THEN <<>> ELSE Head(chunks) \o Joined(Tail(chunks))

TemplateStrings == {Joined(c) : c \in UNION {[1..n -> Chunks] : n \in 1..MaxChunks}}

InitLexer ==
    /\ engine = TemplateEngine(Undef, Undef)
    /\ builtins = CONTEXT_BUILTINS
    /\ ctx = NewContext(Undef, CONTEXT_BUILTINS)
    /\ \E s \in TemplateStrings : last = Call("string", s, Undef, Undef, Undef, <<>>)

\* new Lexer(templateString).tokenize()
Tokenize ==
    /\ last.op = "string"
    /\ last' = [Call("tokenize", last.tpl, Undef, Undef, Undef, <<>>)
                    EXCEPT !.ret = List(tokenize(Lexer(last.tpl)))]
    /\ UNCHANGED <<engine, builtins, ctx>>

NextLexer == Tokenize

SpecLexer == InitLexer /\ [][NextLexer]_vars

----------------------------------------------------------------------------
(* Properties.  last is the call made last, engine the engine it was made  *)
(* on, ctx the caller's Context.                                           *)

DefaultOptions ==
    /\ engine.stringIfInvalid = DefaultStringIfInvalid
    /\ engine.autoescape = Bool(TRUE)

EscapedMetachars ==
    <<"&", "lt;", "b", "&", "gt;", "&", "amp;", "&", "#39;", "&", "quot;">>

\* what string_if_invalid "INVALID %s" gives for the variable with these pieces
InvalidFor(variable) == <<"INVALID ">> \o variable

\* C1: renderTemplate(templateCode, context, otherTemplateSources,
\* templateEngineOptions): an option given fourth configures the render (a
\* missing variable renders string_if_invalid), and a template given third
\* can be included.
C1_ThirdSourcesFourthOptions ==
    last.op = "renderTemplate" =>
        /\ (last.tpl = "missing" /\ last.a4 = OptInvalid)
              => (last.err = "none" /\ last.out = InvalidFor(<<"missing">>))
        /\ (last.tpl = "incl" /\ last.a3 = Obj(IncludeSources))
              => last.err = "none"

\* C2: {{ v }} for a value with HTML metacharacters renders escaped on an
\* engine with autoescape on, and unchanged on an engine created with
\* autoescape false.
C2_AutoescapeOption ==
    (last.op = "renderTemplateString" /\ last.tpl = "v" /\ last.data = DataA) =>
        /\ last.err = "none"
        /\ last.out = IF engine.autoescape = Bool(FALSE) THEN Metachars
                      ELSE EscapedMetachars

PathCodes == {"missing", "a.b", "a.b.c", "None.x"}

\* C3: with default options no {{ path }} makes the render throw, whatever
\* segment of the path is absent, null or undefined.
C3_MissingNeverRaises ==
    (last.op = "renderTemplateString" /\ last.tpl \in PathCodes /\ DefaultOptions) =>
        last.err = "none"

\* C4: with string_if_invalid "INVALID %s", {{ a.b.c }} renders the value
\* when a.b.c exists and "INVALID a.b.c" when a, a.b or a.b.c is missing.
C4_InvalidAtAnySegment ==
    (last.op = "renderTemplateString" /\ last.tpl = "a.b.c"
     /\ engine.stringIfInvalid = Str(InvalidText)) =>
        /\ last.err = "none"
        /\ last.out = IF last.data = DataA THEN <<"val">>
                      ELSE InvalidFor(<<"a", ".", "b", ".", "c">>)

\* the name in {% extends 'name' %} at the head of a source, "" for a root
ParentName(source) ==
    IF source.nodelist # <<>> /\ source.nodelist[1].t = "Extends"
    THEN source.nodelist[1].parent_name.token[2]
    ELSE ""

\* the sources from the one named up to the root, leaf first
RECURSIVE Ancestry(_, _)
Ancestry(sources, name) ==
    IF ParentName(sources[name]) = "" THEN <<sources[name]>>
    ELSE <<sources[name]>> \o Ancestry(sources, ParentName(sources[name]))

\* the blocks a source defines
DefinedBlocks(source) ==
    SelectSeq(IF ParentName(source) = "" THEN source.nodelist
              ELSE source.nodelist[1].nodelist,
              LAMBDA n : n.t = "Block")

\* the body of block x in the first source of the chain that defines it
RECURSIVE LeafMostBody(_, _)
LeafMostBody(chain, x) ==
    LET own == SelectSeq(DefinedBlocks(Head(chain)), LAMBDA n : n.name = x)
    IN IF own # <<>> THEN own[1].nodelist ELSE LeafMostBody(Tail(chain), x)

\* the text of a node list of text nodes
TextOf(nodes) == Flatten([i \in 1..Len(nodes) |-> nodes[i].s])

\* the root's text with each block replaced by its leaf-most body
LeafMostText(sources, name) ==
    LET chain == Ancestry(sources, name)
        root == chain[Len(chain)].nodelist
    IN Flatten([i \in 1..Len(root) |->
                   IF root[i].t = "Block"
                   THEN TextOf(LeafMostBody(chain, root[i].name))
                   ELSE root[i].s])

\* C5: a template of an extends chain renders the root's text, each block
\* of the root holding the body of its leaf-most definition in the chain,
\* and the root's own body where no child overrides it.
C5_LeafMostOverride ==
    (last.op = "renderToString" /\ engine.templateSources = ChainSources
     /\ last.tpl \in DOMAIN ChainSources) =>
        /\ last.err = "none"
        /\ last.out = LeafMostText(ChainSources, last.tpl)

\* the leaf of the chain of three was rendered: X from the leaf, Y from the root
C5_Witness ==
    /\ last.op = "renderToString"
    /\ engine.templateSources = ChainSources
    /\ last.tpl = "leaf"
    /\ last.out = <<"A ", "lx", " B ", "ry", " C">>

\* C6: with block.super at each override level, block X holds each level's
\* text around its parent's content, parent first.
C6_BlockSuperConcatenates ==
    (last.op = "renderToString" /\ engine.templateSources = SuperSources
     /\ last.tpl \in {"child", "grand"}) =>
        /\ last.err = "none"
        /\ last.out = IF last.tpl = "child"
                      THEN <<"A ", "c1 ", "rx", " c2", " B">>
                      ELSE <<"A ", "c1 ", "rx", " c2", " g", " B">>

\* the escaped text of {{ key }} in a context of data, "" if it is missing
Shown(data, key) ==
    IF data.k = "obj" /\ key \in DOMAIN data.o THEN escapeHtml(ToStr(data.o[key]))
    ELSE <<>>

\* C7: {% include 'inc' with k=v %} shows k bound to the value of v beside
\* the variables of the including context; with only, k is bound and no
\* variable of the including context is visible.
C7_IncludeWithBindings ==
    (last.op = "renderTemplateString" /\ last.tpl \in {"incl_with", "incl_only"}
     /\ engine.templateSources = IncludeSources /\ last.data \in {DataA, DataB}) =>
        /\ last.err = "none"
        /\ last.out = <<"[", "k=">> \o Shown(last.data, "v") \o <<" var=">>
                      \o (IF last.tpl = "incl_only" THEN <<>> ELSE Shown(last.data, "var"))
                      \o <<"]">>

\* how many pieces of s are the piece c
Count(s, c) == Cardinality({i \in 1..Len(s) : s[i] = c})

\* C8: {% for x in seq %}B{{ x }}{% empty %}E{% endfor %} gives E and no
\* round of the body for an empty seq, and one round for each element and no
\* E otherwise.
C8_EmptyClause ==
    (last.op = "renderTemplateString" /\ last.tpl = "for_seq"
     /\ last.data \in {DataA, DataB, DataC}) =>
        /\ last.err = "none"
        /\ IF last.data.o["seq"].l = <<>>
           THEN last.out = <<"<", "E", ">">>
           ELSE /\ Count(last.out, "E") = 0
                /\ Count(last.out, "B") = Len(last.data.o["seq"].l)

\* C9: a for over a missing variable or over None runs its body zero times
\* and throws nothing.
C9_MissingSequenceIsEmpty ==
    (last.op = "renderTemplateString" /\ last.tpl \in {"for_missing", "for_none"}) =>
        /\ last.err = "none"
        /\ Count(last.out, "B") = 0

\* C10: after a render of {% with %} on the caller's Context, returned or
\* thrown, the Context holds the frames it held before.
C10_WithPopsOnEveryExit ==
    (last.op = "render" /\ last.tpl \in {"with_ok", "with_err"}) =>
        ctx.dicts = last.pre

\* C11: rendering is a pure function of (template, context data): two renders
\* of one template with the same context data, one after the other and both
\* successful, give the same output
C11_RenderRepeatable ==
    [][(/\ last.op = "render" /\ last'.op = "render"
        /\ last'.tpl = last.tpl
        /\ last.err = "none" /\ last'.err = "none")
       => last'.out = last.out]_vars

\* C12: on one engine each name is compiled at most once, a name in the cache
\* has been compiled exactly once, and a request for a name that is already
\* cached returns the cached Template and leaves the cache as it was
C12_CompiledAtMostOnce ==
    /\ \A n \in DOMAIN engine.compiled : engine.compiled[n] <= 1
    /\ \A n \in DOMAIN engine.templates :
          n \in DOMAIN engine.compiled /\ engine.compiled[n] = 1
    /\ (last.op = "getTemplate" /\ last.tpl \in DOMAIN last.pre[1]) =>
          /\ last.err = "none"
          /\ last.ret = last.pre[1][last.tpl]
          /\ engine.templates = last.pre[1]

\* a getTemplate that found its name in the cache, two more templates having
\* been loaded by extends
C12_Witness ==
    /\ last.op = "getTemplate"
    /\ last.tpl \in DOMAIN last.pre[1]
    /\ last.ret.k = "Template"
    /\ {"leaf", "mid", "base"} \subseteq DOMAIN engine.templates
    /\ engine.compiled[last.tpl] = 1

\* C13: getTemplate and renderToString raise TemplateDoesNotExist exactly when
\* the name is not a key of the engine's sources, and getTemplate returns a
\* Template for every name that is a key
C13_DoesNotExistIffNotAKey ==
    last.op \in {"getTemplate", "renderToString"} =>
        /\ (last.err = "TemplateDoesNotExist") <=> (last.tpl \notin DOMAIN engine.templateSources)
        /\ (last.op = "getTemplate" /\ last.tpl \in DOMAIN engine.templateSources) =>
              last.ret.k = "Template"

\* the command of a BLOCK token, "" for another token
CommandOf(token) ==
    IF token.token_type = "BLOCK" /\ token.contents # <<>> THEN token.contents[1][1] ELSE ""

\* the tags left open by a text, outermost first; an if whose else has been
\* read is "else", and "extends" marks an {% extends %}, which takes the rest
\* of the text as its own; <<"bad">> when a closing tag does not meet its
\* opening one
RECURSIVE OpenTags(_, _, _)
OpenTags(tokens, i, stack) ==
    IF i > Len(tokens) THEN stack
    ELSE LET c == CommandOf(tokens[i])
             n == Len(stack)
         IN CASE c \in {"if", "block"} -> OpenTags(tokens, i + 1, Append(stack, c))
              [] c = "else" /\ n > 0 /\ stack[n] = "if" ->
                    OpenTags(tokens, i + 1, [stack EXCEPT ![n] = "else"])
              [] c = "endif" /\ n > 0 /\ stack[n] \in {"if", "else"} ->
                    OpenTags(tokens, i + 1, SubSeq(stack, 1, n - 1))
              [] c = "endblock" /\ n > 0 /\ stack[n] = "block" ->
                    OpenTags(tokens, i + 1, SubSeq(stack, 1, n - 1))
              [] c = "extends" -> OpenTags(tokens, i + 1, Append(stack, c))
              [] c = "" -> OpenTags(tokens, i + 1, stack)
              [] OTHER -> <<"bad">>

\* the open tags that wait for a terminator
Pending(tokens) == SelectSeq(OpenTags(tokens, 1, <<>>), LAMBDA f : f # "extends")

\* the tag an open frame belongs to and the terminators its body ends at
TagOf(frame) == IF frame = "else" THEN "if" ELSE frame
TerminatorsOf(frame) ==
    CASE frame = "if" -> <<"elif", "else", "endif">>
      [] frame = "else" -> <<"endif">>
      [] frame = "block" -> <<"endblock">>

Occurrences(tokens, c) == Cardinality({i \in 1..Len(tokens) : CommandOf(tokens[i]) = c})

Mentions(msg, word) == \E i \in 1..Len(msg) : msg[i] = word

\* the position of the first {% bogus %} of a text, 0 if none
FirstBogus(tokens) ==
    IF Occurrences(tokens, "bogus") = 0 THEN 0
    ELSE CHOOSE i \in 1..Len(tokens) :
            /\ CommandOf(tokens[i]) = "bogus"
            /\ \A j \in 1..(i - 1) : CommandOf(tokens[j]) # "bogus"

\* the text before the first {% bogus %}
BeforeBogus(tokens) == SubSeq(tokens, 1, FirstBogus(tokens) - 1)

\* C14: a text whose first error is a block tag with the unregistered command
\* bogus fails to compile with a TemplateSyntaxError that names bogus and, if
\* the tag lies in the body of an open tag, each terminator of that body
C14_InvalidBlockTagNamed ==
    (/\ last.op = "getTemplateFromString"
     /\ FirstBogus(last.tpl) > 0
     /\ OpenTags(BeforeBogus(last.tpl), 1, <<>>) # <<"bad">>
     /\ Occurrences(BeforeBogus(last.tpl), "extends") = 0
     /\ Occurrences(BeforeBogus(last.tpl), "block") <= 1)
    => /\ last.err = "TemplateSyntaxError"
       /\ Mentions(last.msg, "bogus")
       /\ LET open == OpenTags(BeforeBogus(last.tpl), 1, <<>>)
          IN open # <<>> =>
                \A k \in 1..Len(TerminatorsOf(open[Len(open)])) :
                    Mentions(last.msg, TerminatorsOf(open[Len(open)])[k])

\* the text ends with tags open and has no other error
EndsUnclosed(tokens) ==
    /\ OpenTags(tokens, 1, <<>>) # <<"bad">>
    /\ Pending(tokens) # <<>>
    /\ Occurrences(tokens, "bogus") = 0
    /\ Occurrences(tokens, "block") <= 1
    /\ Occurrences(tokens, "extends") <= 1

UnclosedMessage(frame, terminators) ==
    <<"Unclosed tag on line 1: '", TagOf(frame), "'. Looking for one of: ">>
        \o Join([k \in 1..Len(terminators) |-> <<terminators[k]>>], ", ") \o <<".">>

\* C15 as stated: a text that ends with tags open fails to compile with the
\* "Unclosed tag" syntax error that names the outermost open tag and the
\* terminators expected
C15_UnclosedNamesOutermost ==
    (last.op = "getTemplateFromString" /\ EndsUnclosed(last.tpl)) =>
        LET open == Pending(last.tpl)
        IN /\ last.err = "TemplateSyntaxError"
           /\ last.msg = UnclosedMessage(open[1], TerminatorsOf(open[Len(open)]))

\* C15 amended: a text that ends with tags open fails to compile with the
\* "Unclosed tag" syntax error that names the innermost open tag and the
\* terminators of its body, at every nesting depth
C15_UnclosedNamesInnermost ==
    (last.op = "getTemplateFromString" /\ EndsUnclosed(last.tpl)) =>
        LET open == Pending(last.tpl)
        IN /\ last.err = "TemplateSyntaxError"
           /\ last.msg = UnclosedMessage(open[Len(open)], TerminatorsOf(open[Len(open)]))

\* a text with two different tags open, one in the other, has been compiled
C15_Witness ==
    /\ last.op = "getTemplateFromString"
    /\ EndsUnclosed(last.tpl)
    /\ Len(Pending(last.tpl)) >= 2
    /\ TagOf(Pending(last.tpl)[1]) # TagOf(Pending(last.tpl)[2])
    /\ last.err = "TemplateSyntaxError"

\* C16: a text in which a variable or a block tag comes before {% extends %}
\* fails to compile with a syntax error
C16_ExtendsMustBeFirst ==
    (/\ last.op = "getTemplateFromString"
     /\ \E j \in 1..Len(last.tpl) :
           /\ CommandOf(last.tpl[j]) = "extends"
           /\ \E i \in 1..(j - 1) : last.tpl[i].token_type \in {"VAR", "BLOCK"})
    => last.err = "TemplateSyntaxError"

\* the condition of a text {% if cond %}T{% else %}F{% endif %}, <<>> for
\* another text
CondOf(tpl) ==
    IF Len(tpl) = 5 /\ tpl[1].contents # <<>> /\ tpl = IfText(Tail(tpl[1].contents))
    THEN Tail(tpl[1].contents)
    ELSE <<>>

\* the operands whose evaluation returns a value, and their truth in the data
PlainOperands == {<<"a">>, <<"b">>, <<"c">>}
Truthy(bit, data) == bit \in PlainOperands /\ ~Falsy(data.o[bit[1]])

\* C17: {% if x and y %} renders T iff x and y are both truthy, {% if x or y %}
\* iff one of them is, and y is evaluated only if x is truthy under and, only
\* if x is falsy under or
C17_AndOrShortCircuit ==
    LET c == CondOf(last.tpl)
    IN (/\ last.op = "renderTemplateText"
        /\ Len(c) = 3
        /\ c[1] \in PlainOperands
        /\ c[2] \in {<<"and">>, <<"or">>}
        /\ c[3] \in PlainOperands \cup {<<"None", ".", "x">>})
       => LET x == Truthy(c[1], last.data)
              y == Truthy(c[3], last.data)
          IN /\ last.err = "none"
             /\ last.out = IF c[2] = <<"and">>
                           THEN (IF x /\ y THEN <<"T">> ELSE <<"F">>)
                           ELSE (IF x \/ y THEN <<"T">> ELSE <<"F">>)
             /\ last.ret = IF (c[2] = <<"and">>) = x THEN <<c[1], c[3]>> ELSE <<c[1]>>

\* an and whose left operand is falsy, an or whose left operand is truthy: the
\* right operand, whose evaluation would throw, has not been evaluated
C17_Witness ==
    /\ last.op = "renderTemplateText"
    /\ CondOf(last.tpl) \in {<<<<"a">>, <<"and">>, <<"None", ".", "x">>>>,
                             <<<<"a">>, <<"or">>, <<"None", ".", "x">>>>}
    /\ last.ret = <<<<"a">>>>
    /\ last.out = IF CondOf(last.tpl)[2] = <<"or">> THEN <<"T">> ELSE <<"F">>

\* the binding powers the operators are specified with
SpecifiedPower(bit) ==
    CASE bit = <<"or">> -> 6
      [] bit = <<"and">> -> 7
      [] bit = <<"not">> -> 8
      [] bit \in {<<"in">>, <<"not in">>} -> 9
      [] OTHER -> 10

\* a parsed condition written with a pair of parentheses for each operator
RECURSIVE Parenthesized(_)
Parenthesized(c) ==
    CASE c.t = "literal" -> c.text
      [] c.t = "prefix" -> <<"(", c.id>> \o Parenthesized(c.first) \o <<")">>
      [] OTHER -> <<"(">> \o Parenthesized(c.first) \o <<c.id>>
                     \o Parenthesized(c.second) \o <<")">>

\* how a o1 b o2 c and not a o b group under the specified powers, the
\* operators of equal power to the left
Grouped(c) ==
    IF Len(c) = 5
    THEN IF SpecifiedPower(c[2]) >= SpecifiedPower(c[4])
         THEN <<"(", "(">> \o c[1] \o c[2] \o c[3] \o <<")">> \o c[4] \o c[5] \o <<")">>
         ELSE <<"(">> \o c[1] \o c[2] \o <<"(">> \o c[3] \o c[4] \o c[5] \o <<")", ")">>
    ELSE IF SpecifiedPower(c[3]) > SpecifiedPower(c[1])
         THEN <<"(">> \o c[1] \o <<"(">> \o c[2] \o c[3] \o c[4] \o <<")", ")">>
         ELSE <<"(", "(">> \o c[1] \o c[2] \o <<")">> \o c[3] \o c[4] \o <<")">>

\* C18: the conditions a o1 b o2 c and not a o b compile to the grouping the
\* binding powers or(6) < and(7) < not(8) < in(9) < comparisons(10) and left
\* associativity give, and for and/or the branch rendered is the one that
\* grouping evaluates to
C18_BindingPowers ==
    LET c == CondOf(last.tpl)
    IN /\ (last.op = "getTemplateFromString" /\ c \in LongConds) =>
            /\ last.err = "none"
            /\ Parenthesized(last.ret.nodelist[1].conditions_nodelists[1][1]) = Grouped(c)
       /\ (/\ last.op = "renderTemplateText"
           /\ Len(c) = 5
           /\ c \in LongConds
           /\ {c[2], c[4]} \subseteq {<<"and">>, <<"or">>}) =>
            LET x == Truthy(c[1], last.data)
                y == Truthy(c[3], last.data)
                z == Truthy(c[5], last.data)
                value == CASE c[2] = <<"or">> /\ c[4] = <<"and">> -> x \/ (y /\ z)
                           [] c[2] = <<"and">> /\ c[4] = <<"or">> -> (x /\ y) \/ z
                           [] c[2] = <<"and">> /\ c[4] = <<"and">> -> (x /\ y) /\ z
                           [] OTHER -> (x \/ y) \/ z
            IN last.out = IF value THEN <<"T">> ELSE <<"F">>

\* a or b and c has been rendered with a truthy and c falsy: (a or b) and c
\* would render F
C18_Witness ==
    /\ last.op = "renderTemplateText"
    /\ CondOf(last.tpl) = <<<<"a">>, <<"or">>, <<"b">>, <<"and">>, <<"c">>>>
    /\ Truthy(<<"a">>, last.data) /\ ~Truthy(<<"c">>, last.data)
    /\ last.out = <<"T">>

\* the operands whose evaluation throws: None.x reads a property of null
Throwing == {<<"None", ".", "x">>}

\* C19: a condition that is an operator renders without an error; if the
\* evaluation of one of its own operands throws, or its cmp throws (is, with
\* a right operand that is no function), the operator yields false and the
\* else branch is rendered
C19_OperatorCatches ==
    LET c == CondOf(last.tpl)
    IN (/\ last.op = "renderTemplateText"
        /\ c # <<>>
        /\ compileNodelist(last.tpl).err = "none"
        /\ (Len(c) > 1 \/ c[1] \notin Throwing))
       => /\ last.err = "none"
          /\ (/\ Len(c) = 2 /\ c[1] = <<"not">> /\ c[2] \in Throwing) => last.out = <<"F">>
          /\ (/\ Len(c) = 3
              /\ c[1] \notin {<<"not">>}
              /\ c[2] \notin {<<"not">>}
              /\ \/ \E i \in 1..Len(last.ret) : last.ret[i] \in Throwing
                 \/ c[2] = <<"is">>) => last.out = <<"F">>

\* an in test whose right operand threw when it was evaluated has rendered
\* the else branch
C19_Witness ==
    /\ last.op = "renderTemplateText"
    /\ CondOf(last.tpl) = <<<<"a">>, <<"in">>, <<"None", ".", "x">>>>
    /\ last.ret = <<<<"a">>, <<"None", ".", "x">>>>
    /\ last.err = "none"
    /\ last.out = <<"F">>

InfixBits == {<<"and">>, <<"or">>, <<"==">>, <<"in">>, <<"is">>}
OperandBits == PlainOperands \cup Throwing

\* C20: a condition that starts with an infix operator, that has not between
\* two operands, that ends after an infix operator, or that has a second
\* operand after the first, fails to compile with a template (syntax) error
\* whose message shows the offending token
C20_GrammarErrors ==
    LET c == CondOf(last.tpl)
    IN (last.op = "getTemplateFromString" /\ c # <<>>) =>
          /\ (c[1] \in InfixBits) =>
                /\ last.err \in {"TemplateSyntaxError", "TemplateError"}
                /\ Mentions(last.msg, c[1][1])
          /\ (Len(c) = 3 /\ c[1] \in OperandBits /\ c[2] = <<"not">> /\ c[3] \in OperandBits) =>
                /\ last.err \in {"TemplateSyntaxError", "TemplateError"}
                /\ Mentions(last.msg, "not")
          /\ (Len(c) = 2 /\ c[1] \in OperandBits /\ c[2] \in InfixBits) =>
                last.err \in {"TemplateSyntaxError", "TemplateError"}
          /\ (Len(c) = 2 /\ c[1] \in OperandBits /\ c[2] \in OperandBits) =>
                /\ last.err \in {"TemplateSyntaxError", "TemplateError"}
                /\ last.msg = <<"Unused ">> \o c[2] \o <<" at end of if expression.">>

\* the text JavaScript prints a boolean as
BoolText(b) == IF b THEN "true" ELSE "false"

\* what iteration i (from 0) of a loop over n items prints for ForloopFields
ForloopRow(i, n) ==
    <<DigitPiece[i + 1], DigitPiece[i], DigitPiece[n - i], DigitPiece[n - i - 1],
      BoolText(i = 0), BoolText(i = n - 1), ";">>

\* what the inner iteration j of m prints inside the outer iteration i of n
NestedRow(i, n, j, m) ==
    <<DigitPiece[i + 1], DigitPiece[n - i - 1], BoolText(i = 0),
      DigitPiece[j + 1], DigitPiece[m - j - 1], ";">>

\* C21: in iteration i (from 0) of a {% for %} over n >= 1 items forloop has
\* counter = i+1, counter0 = i, revcounter = n-i, revcounter0 = n-i-1,
\* first = (i = 0) and last = (i = n-1), and in a nested loop
\* forloop.parentloop has the fields of the enclosing loop's iteration.
C21_ForloopCounters ==
    /\ (last.op = "renderTemplateString" /\ last.tpl = "for_loop")
          => /\ last.err = "none"
             /\ last.out = Flatten([i \in 1..Len(last.data.o["seq"].l) |->
                                ForloopRow(i - 1, Len(last.data.o["seq"].l))])
    /\ (last.op = "renderTemplateString" /\ last.tpl = "for_nested")
          => /\ last.err = "none"
             /\ last.out =
                  Flatten([i \in 1..Len(last.data.o["seq"].l) |->
                      Flatten([j \in 1..Len(last.data.o["inner"].l) |->
                          NestedRow(i - 1, Len(last.data.o["seq"].l),
                                    j - 1, Len(last.data.o["inner"].l))])])

\* a nested loop of three outer and two inner iterations was rendered
C21_Witness ==
    /\ last.op = "renderTemplateString"
    /\ last.tpl = "for_nested"
    /\ Len(last.data.o["seq"].l) = 3
    /\ Len(last.data.o["inner"].l) = 2
    /\ last.err = "none"
    /\ Len(last.out) = 36

\* the renders of the cycle tag before the one of iteration p since the pass
\* began or since the last reset: a reset follows each item that is true
SinceReset(seq, p) ==
    p - (CHOOSE q \in 0..(p - 1) :
            /\ q = 0 \/ ~Falsy(seq[q])
            /\ \A m \in (q + 1)..(p - 1) : Falsy(seq[m]))

\* what one pass of CycleLoop over seq prints
CyclePass(seq) ==
    [p \in 1..Len(seq) |-> CycleValues[((SinceReset(seq, p) - 1) % Len(CycleValues)) + 1]]

\* C22: in one render pass the k-th render of a cycle node since the start of
\* the pass or since the last resetcycle prints the value of index
\* (k-1) mod n, and each pass of the template starts again at the first value.
C22_CycleWrapsAndResets ==
    /\ (last.op = "renderTemplateString" /\ last.tpl = "cycle")
          => /\ last.err = "none"
             /\ last.out = CyclePass(last.data.o["seq"].l)
    /\ (last.op = "renderTemplateString" /\ last.tpl = "cycle_twice")
          => /\ last.err = "none"
             /\ last.out = CyclePass(last.data.o["seq"].l) \o <<"|">>
                               \o CyclePass(last.data.o["seq"].l)

\* two passes of three renders each: the third wraps, and the second pass
\* starts at the first value after a pass that ended on it
C22_Witness ==
    /\ last.op = "renderTemplateString"
    /\ last.tpl = "cycle_twice"
    /\ last.data.o["seq"].l = <<Num(0), Num(0), Num(0)>>
    /\ last.out = <<"a", "b", "a", "|", "a", "b", "a">>

\* what a loop over seq prints for an ifchanged that prints changed[p] when
\* the item p differs from the item before it, and "=" otherwise
ChangedPass(seq, changed) ==
    [p \in 1..Len(seq) |-> IF p = 1 \/ seq[p] # seq[p - 1] THEN changed[p] ELSE "="]

\* C23: {% ifchanged %} in a for loop renders its changed branch on the first
\* iteration and on each iteration whose compared value (the rendered body,
\* or the watched variable) differs from the one of the iteration before,
\* and its else branch on the others.
C23_IfChangedInLoop ==
    /\ (last.op = "renderTemplateString" /\ last.tpl = "ifchanged")
          => /\ last.err = "none"
             /\ last.out = ChangedPass(last.data.o["seq"].l,
                               [p \in 1..Len(last.data.o["seq"].l) |->
                                   DigitPiece[last.data.o["seq"].l[p].n]])
    /\ (last.op = "renderTemplateString" /\ last.tpl = "ifchanged_var")
          => /\ last.err = "none"
             /\ last.out = ChangedPass(last.data.o["seq"].l,
                               [p \in 1..Len(last.data.o["seq"].l) |-> "c"])

\* C24: after any sequence of push, pop, update, set, setUpward and delete
\* on a Context its stack holds at least one frame and the first frame is
\* the built-ins frame, and a pop with one frame left throws and leaves the
\* stack as it was.
C24_FrameZeroStays ==
    /\ Len(ctx.dicts) >= 1
    /\ ctx.dicts[1] = builtins
    /\ (last.op = "pop" /\ Len(last.pre) = 1)
          => (last.err = "ContextPopException" /\ ctx.dicts = last.pre)

\* C25: {{ v|f|g }} renders g applied to the result of f applied to v, for
\* any two registered filters and any context value: the filters are applied
\* from left to right, each to what the one before returned.
C25_FiltersLeftToRight ==
    (last.op = "renderTemplateString" /\ last.tpl = "v|f|g")
        => /\ last.err = "none"
           /\ last.out = conditionalEscape(
                             ApplyFilter(Filter(last.a3.l[2].s[1]),
                                 ApplyFilter(Filter(last.a3.l[1].s[1]),
                                             last.data.o["v"])))

\* {{ v|lower|capfirst }} of "aB" is "Ab", where capfirst then lower is "ab"
C25_Witness ==
    /\ last.op = "renderTemplateString"
    /\ last.tpl = "v|f|g"
    /\ last.a3 = List(<<Str(<<"lower">>), Str(<<"capfirst">>)>>)
    /\ last.data.o["v"] = Str(<<"a", "B">>)
    /\ last.out = <<"A", "b">>

\* the words between the delimiters of a TEXT token that is a whole block tag,
\* the contents of a BLOCK token, <<>> for another token
BlockWords(token) ==
    IF token.token_type = "BLOCK" THEN SelectSeq(token.contents, LAMBDA w : w # " ")
    ELSE IF /\ token.token_type = "TEXT"
            /\ Len(token.contents) >= 2
            /\ token.contents[1] = "{%"
            /\ token.contents[Len(token.contents)] = "%}"
    THEN SelectSeq(SubSeq(token.contents, 2, Len(token.contents) - 1),
                   LAMBDA w : w # " ")
    ELSE <<>>

\* the name of a verbatim or endverbatim tag with the words ws
VerbatimName(ws) == Tail(ws)

\* token i of toks is a {% verbatim [name] %} block token
IsVerbatimStart(toks, i) ==
    /\ toks[i].token_type = "BLOCK"
    /\ BlockWords(toks[i]) # <<>>
    /\ BlockWords(toks[i])[1] = "verbatim"

\* token j of toks was cut from {% endverbatim [name] %} with the name of token i
IsVerbatimEnd(toks, i, j) ==
    /\ BlockWords(toks[j]) # <<>>
    /\ BlockWords(toks[j])[1] = "endverbatim"
    /\ VerbatimName(BlockWords(toks[j])) = VerbatimName(BlockWords(toks[i]))

\* the index of the first end of the verbatim block token i opens, Len + 1 for none
VerbatimEnd(toks, i) ==
    IF \E j \in (i + 1)..Len(toks) : IsVerbatimEnd(toks, i, j)
    THEN CHOOSE j \in (i + 1)..Len(toks) :
             /\ IsVerbatimEnd(toks, i, j)
             /\ \A h \in (i + 1)..(j - 1) : ~IsVerbatimEnd(toks, i, h)
    ELSE Len(toks) + 1

\* a whole tag: a delimiter pair around its content
IsTag(s) == Len(s) >= 2 /\ s[1] \in DOMAIN TagEnd /\ s[Len(s)] = TagEnd[s[1]]

\* C26: every token between a {% verbatim [name] %} block token and the
\* first following {% endverbatim [name] %} of the same name is a TEXT token
\* that keeps its delimiters; that end token is a BLOCK token, and the token
\* after it is classified normally again (a tag is not a TEXT token).
C26_VerbatimForcesText ==
    last.op = "tokenize" =>
        \A i \in 1..Len(last.ret.l) :
            IsVerbatimStart(last.ret.l, i) =>
                /\ \A h \in (i + 1)..(VerbatimEnd(last.ret.l, i) - 1) :
                       last.ret.l[h].token_type = "TEXT"
                /\ VerbatimEnd(last.ret.l, i) <= Len(last.ret.l) =>
                       last.ret.l[VerbatimEnd(last.ret.l, i)].token_type = "BLOCK"
                /\ VerbatimEnd(last.ret.l, i) < Len(last.ret.l) =>
                       ~ /\ last.ret.l[VerbatimEnd(last.ret.l, i) + 1].token_type = "TEXT"
                         /\ IsTag(last.ret.l[VerbatimEnd(last.ret.l, i) + 1].contents)

\* {% verbatim x %}{% endverbatim %}{% endverbatim x %}{{ v }}: the unnamed end
\* is kept as text, the named end closes the block, the variable is a VAR token
C26_Witness ==
    /\ last.op = "tokenize"
    /\ Len(last.ret.l) = 4
    /\ IsVerbatimStart(last.ret.l, 1)
    /\ VerbatimName(BlockWords(last.ret.l[1])) = <<"x">>
    /\ last.ret.l[2] = Token("TEXT", <<"{%", "endverbatim", "%}">>)
    /\ VerbatimEnd(last.ret.l, 1) = 3
    /\ last.ret.l[3].token_type = "BLOCK"
    /\ last.ret.l[4] = Token("VAR", <<"v">>)

\* the text of the block X a template id renders
BlockText ==
    [c \in {"block_loop", "block_loop2", "block_alone"} |->
        CASE c = "block_loop" -> "c" [] c = "block_loop2" -> "d" [] OTHER -> "r"]

\* n times the pieces of one pass of the loop around the blocks X and Y
RECURSIVE BlockPasses(_, _)
BlockPasses(text, n) ==
    IF n = 0 THEN <<>> ELSE <<"[", text, "y", "]">> \o BlockPasses(text, n - 1)

\* C27: the render of a block node leaves the overrides of its name in the
\* block context as it found them, so a block in a loop of the base template
\* renders the same override in every pass.
C27_BlockStackRestored ==
    /\ \A e \in last.log : e.e # "blocks"
    /\ (last.op = "renderTemplateString" /\ last.tpl \in DOMAIN BlockText)
           => /\ last.err = "none"
              /\ last.out = BlockPasses(BlockText[last.tpl], Len(last.data.o["seq"].l))

\* the override of the override of block X was rendered in three passes
C27_Witness ==
    /\ last.op = "renderTemplateString"
    /\ last.tpl = "block_loop2"
    /\ Len(last.data.o["seq"].l) = 3
    /\ last.out = BlockPasses("d", 3)
    /\ {"loopchild", "loopbase"} \subseteq DOMAIN engine.templates

\* C28: a render of a node or of a template that returns normally leaves the
\* Context and the RenderContext with the number of frames they had when it
\* started.
C28_DepthsRestored == \A e \in last.log : e.e # "depth"

\* a loop that unpacks its two items into p and q returned with no frame left
C28_Witness ==
    /\ last.op = "renderTemplateString"
    /\ last.tpl = "for_pairs"
    /\ last.data = DataC
    /\ last.err = "none"
    /\ Len(last.out) = 8
    /\ last.log = {}

\* C29: no render adds or changes a key of the built-ins frame, so the name
\* {% firstof v 'fallback' as name %} assigned in one render is unknown to
\* {{ name }} in a later render with a context of its own.
C29_BuiltinsUntouched ==
    /\ builtins = CONTEXT_BUILTINS
    /\ (last.op = "renderTemplateString" /\ last.tpl = "name") => last.out = <<>>

\* C30: when a render of a template returns, renderContext.template is the
\* template that was active before it began, at every depth; after the
\* outermost render it is what it was before, null for a Context that was
\* never rendered with.
C30_TemplateRestored ==
    /\ \A e \in last.log : e.e # "template"
    /\ ctx.rtemplate = Null

====
